---- MODULE Spec2Model ----
(***************************************************************************)
(* Verification model of the quantum computing laboratory: the circuit     *)
(* registry and token binder of the Cirq and Q#-style labs, the simulator  *)
(* they run circuits on, and the BB84 and teleportation protocols.         *)
(*                                                                         *)
(* Amplitudes are exact.  Every gate of the laboratory (H, X, Y, Z, CNOT,  *)
(* CZ, RZ(pi/4)) has matrix entries in Z[w][1/2], w = exp(i*pi/8), so an   *)
(* amplitude is kept as eight integer coefficients of 1, w, ..., w^7 and a *)
(* state vector as such amplitudes over a common denominator 2^k.          *)
(***************************************************************************)
EXTENDS Integers, Sequences, FiniteSets, TLC

\* ------------------------------------------------------------------------
\* Bounds of the model
\* ------------------------------------------------------------------------
MaxCircuits == 2
MaxQubits == 2
MaxShots == 2
NumStreams == 2
MaxTokens == 2
MaxKeyLength == 2
UniformSteps == 2
MaxGroverQubits == 3
QftQubits == 6
MaxQpeQubits == 3
MaxWalkSteps == 2
MaxWalkQubits == 2
MaxRandomBits == 6
MaxTextBits == 33
MaxSearchSpace == 200
NumReaders == 2
MaxShorInput == 120
MaxFreeBits == 5
\* the smallest shift at which a positive argument leaves the 64-bit range
WideShift == 64

RECURSIVE Pow2(_)
Pow2(n) == IF n <= 0 THEN 1 ELSE 2 * Pow2(n - 1)

\* ------------------------------------------------------------------------
\* Amplitude arithmetic in Z[z], z = exp(i*pi/RingOrder), z^RingOrder = -1:
\* an amplitude is the tuple of its integer coefficients of z^0, z^1, ...
\* ------------------------------------------------------------------------
RingOrder == 32
RZero == [j \in 1..RingOrder |-> 0]
ROne == [j \in 1..RingOrder |-> IF j = 1 THEN 1 ELSE 0]
RAdd(a, b) == [j \in 1..RingOrder |-> a[j] + b[j]]
RNeg(a) == [j \in 1..RingOrder |-> 0 - a[j]]
RSub(a, b) == [j \in 1..RingOrder |-> a[j] - b[j]]
\* a * z^e for any integer e
RMulRoot(a, e) ==
  [j \in 1..RingOrder |->
     LET m == ((j - 1) - e) % (2 * RingOrder)
     IN IF m < RingOrder THEN a[m + 1] ELSE 0 - a[m - RingOrder + 1]]
\* a * w^e, w = exp(i*pi/8)
RMulW(a, e) == RMulRoot(a, e * (RingOrder \div 8))
\* a * sqrt(2), sqrt(2) = w^2 + w^(-2)
RMulSqrt2(a) == RAdd(RMulW(a, 2), RMulW(a, 14))
RConj(a) ==
  [j \in 1..RingOrder |-> IF j = 1 THEN a[1] ELSE 0 - a[RingOrder + 2 - j]]
RScale(c, a) == [j \in 1..RingOrder |-> c * a[j]]
RECURSIVE RMulFrom(_, _, _)
RMulFrom(a, b, p) ==
  IF p > RingOrder THEN RZero
  ELSE IF a[p] = 0 THEN RMulFrom(a, b, p + 1)
  ELSE RAdd(RScale(a[p], RMulRoot(b, p - 1)), RMulFrom(a, b, p + 1))
RMul(a, b) == RMulFrom(a, b, 1)
\* |a|^2
RNormSq(a) == RMul(a, RConj(a))
RIsZero(a) == \A j \in 1..RingOrder : a[j] = 0
RAllEven(a) == \A j \in 1..RingOrder : a[j] % 2 = 0
RHalf(a) == [j \in 1..RingOrder |-> a[j] \div 2]

\* ------------------------------------------------------------------------
\* State vectors: [n, k, amp], the vector amp / 2^k over basis 0..2^n-1.
\* Qubit 0 is the most significant bit of the basis index, the order in
\* which cirq.measure(*qubits) and final_state_vector list the qubits.
\* ------------------------------------------------------------------------
BitOf(n, x, q) == (x \div Pow2(n - 1 - q)) % 2
FlipBit(n, x, q) ==
  IF BitOf(n, x, q) = 1 THEN x - Pow2(n - 1 - q) ELSE x + Pow2(n - 1 - q)
BitString(n, x) == [p \in 1..n |-> BitOf(n, x, p - 1)]

InitialState(n) ==
  [n |-> n, k |-> 0,
   amp |-> [x \in 0..(Pow2(n) - 1) |-> IF x = 0 THEN ROne ELSE RZero]]

RECURSIVE Reduce(_)
Reduce(s) ==
  IF s.k > 0 /\ \A x \in DOMAIN s.amp : RAllEven(s.amp[x])
  THEN Reduce([s EXCEPT !.k = s.k - 1,
                        !.amp = [x \in DOMAIN s.amp |-> RHalf(s.amp[x])]])
  ELSE s

GateH(s, q) ==
  Reduce([s EXCEPT
    !.k = s.k + 1,
    !.amp = [x \in DOMAIN s.amp |->
               IF BitOf(s.n, x, q) = 0
               THEN RMulSqrt2(RAdd(s.amp[x], s.amp[FlipBit(s.n, x, q)]))
               ELSE RMulSqrt2(RSub(s.amp[FlipBit(s.n, x, q)], s.amp[x]))]])
GateX(s, q) ==
  [s EXCEPT !.amp = [x \in DOMAIN s.amp |-> s.amp[FlipBit(s.n, x, q)]]]
GateY(s, q) ==
  [s EXCEPT !.amp = [x \in DOMAIN s.amp |->
               IF BitOf(s.n, x, q) = 1
               THEN RMulW(s.amp[FlipBit(s.n, x, q)], 4)
               ELSE RMulW(s.amp[FlipBit(s.n, x, q)], 12)]]
GateZ(s, q) ==
  [s EXCEPT !.amp = [x \in DOMAIN s.amp |->
               IF BitOf(s.n, x, q) = 1 THEN RNeg(s.amp[x]) ELSE s.amp[x]]]
GateRZ(s, q) ==
  [s EXCEPT !.amp = [x \in DOMAIN s.amp |->
               IF BitOf(s.n, x, q) = 1
               THEN RMulW(s.amp[x], 1) ELSE RMulW(s.amp[x], 15)]]
\* ry(pi/4): cos(pi/8) = (w - w^7)/2, sin(pi/8) = (w^3 - w^5)/2
RCos8(a) == RSub(RMulW(a, 1), RMulW(a, 7))
RSin8(a) == RSub(RMulW(a, 3), RMulW(a, 5))
GateRY(s, q) ==
  Reduce([s EXCEPT
    !.k = s.k + 1,
    !.amp = [x \in DOMAIN s.amp |->
               IF BitOf(s.n, x, q) = 0
               THEN RSub(RCos8(s.amp[x]), RSin8(s.amp[FlipBit(s.n, x, q)]))
               ELSE RAdd(RSin8(s.amp[FlipBit(s.n, x, q)]), RCos8(s.amp[x]))]])
GateCNOT(s, c, t) ==
  [s EXCEPT !.amp = [x \in DOMAIN s.amp |->
               IF BitOf(s.n, x, c) = 1
               THEN s.amp[FlipBit(s.n, x, t)] ELSE s.amp[x]]]
GateCZ(s, c, t) ==
  [s EXCEPT !.amp = [x \in DOMAIN s.amp |->
               IF BitOf(s.n, x, c) = 1 /\ BitOf(s.n, x, t) = 1
               THEN RNeg(s.amp[x]) ELSE s.amp[x]]]

\* swap(a, b)
GateSWAP(s, a, b) ==
  [s EXCEPT !.amp = [x \in DOMAIN s.amp |->
               IF BitOf(s.n, x, a) = BitOf(s.n, x, b) THEN s.amp[x]
               ELSE s.amp[FlipBit(s.n, FlipBit(s.n, x, a), b)]]]

\* cp(theta, c, t) and CZPowGate(exponent)(c, t) with theta = pi * exponent
\* = pi * e / RingOrder: the amplitudes whose qubits c and t are both 1 are
\* multiplied by exp(i*theta)
GateCP(s, c, t, e) ==
  [s EXCEPT !.amp = [x \in DOMAIN s.amp |->
               IF BitOf(s.n, x, c) = 1 /\ BitOf(s.n, x, t) = 1
               THEN RMulRoot(s.amp[x], e) ELSE s.amp[x]]]

\* mcp(pi, [0..c], t): the sign of the amplitudes whose qubits 0..c and t
\* are all 1 is flipped
GateMCP(s, c, t) ==
  [s EXCEPT !.amp = [x \in DOMAIN s.amp |->
               IF BitOf(s.n, x, t) = 1 /\ \A q \in 0..c : BitOf(s.n, x, q) = 1
               THEN RNeg(s.amp[x]) ELSE s.amp[x]]]

\* A bound gate operation
Op(kind, control, target) ==
  [kind |-> kind, control |-> control, target |-> target]

\* A bound gate operation of the transform circuits; power is the phase
\* angle of a controlled phase in units of pi/RingOrder, 0 for other gates
OpP(kind, control, target, power) ==
  [kind |-> kind, control |-> control, target |-> target, power |-> power]

ApplyOp(s, op) ==
  CASE op.kind = "H" -> GateH(s, op.target)
    [] op.kind = "X" -> GateX(s, op.target)
    [] op.kind = "Y" -> GateY(s, op.target)
    [] op.kind = "Z" -> GateZ(s, op.target)
    [] op.kind = "RZ" -> GateRZ(s, op.target)
    [] op.kind = "RY" -> GateRY(s, op.target)
    [] op.kind = "CNOT" -> GateCNOT(s, op.control, op.target)
    [] op.kind = "CZ" -> GateCZ(s, op.control, op.target)
    [] op.kind = "MCP" -> GateMCP(s, op.control, op.target)
    [] op.kind = "SWAP" -> GateSWAP(s, op.control, op.target)
    [] op.kind = "CP" -> GateCP(s, op.control, op.target, op.power)

\* The gates one after the other.  (The comparison makes TLC tabulate the
\* vector a gate leaves before the next gate reads it.)
RECURSIVE Evolve(_, _, _)
Evolve(s, ops, i) ==
  IF i > Len(ops) THEN s
  ELSE LET t == ApplyOp(s, ops[i])
       IN IF t.amp = t.amp THEN Evolve(t, ops, i + 1) ELSE t

\* simulator.simulate(circuit).final_state_vector
Simulate(n, ops) == Evolve(InitialState(n), ops, 1)

\* Outcomes simulator.run can return for a measurement of all qubits:
\* the basis states of non-zero amplitude, as bit sequences q0..q(n-1)
Support(s) == {x \in DOMAIN s.amp : ~RIsZero(s.amp[x])}
RunOutcomes(n, ops) ==
  LET s == Simulate(n, ops) IN {BitString(n, x) : x \in Support(s)}

\* Born rule: the probability of measuring a basis state of the set xs is
\* ProbNum(s, xs) / 4^(s.k)
RECURSIVE ProbNum(_, _)
ProbNum(s, xs) ==
  IF xs = {} THEN RZero
  ELSE LET x == CHOOSE x \in xs : TRUE
       IN RAdd(RNormSq(s.amp[x]), ProbNum(s, xs \ {x}))

\* ------------------------------------------------------------------------
\* Single precision: cirq.Simulator() is built with its default dtype,
\* numpy.complex64, so every amplitude the simulator holds is a pair of
\* float32 values and every sum and product it forms is rounded to a 24-bit
\* significand, to nearest, ties to even.  A float32 is [m, e], the value
\* m * 2^e with 2^23 <= |m| < 2^24, or m = 0 for zero.
\* ------------------------------------------------------------------------
SingleZero == [m |-> 0, e |-> 0]
SingleOne == [m |-> Pow2(23), e |-> -23]
\* float32(numpy.sqrt(2)) is SingleSqrtTwo / 2^23
SingleSqrtTwo == 11863283

Magnitude(i) == IF i < 0 THEN 0 - i ELSE i

\* The float32 nearest to M * 2^e, for an integer |M| < 2^31
RECURSIVE SingleRound(_, _)
SingleRound(M, e) ==
  LET a == Magnitude(M)
  IN IF a = 0 THEN SingleZero
     ELSE IF a < Pow2(23) THEN SingleRound(2 * M, e - 1)
     ELSE IF a < Pow2(24) THEN [m |-> M, e |-> e]
     ELSE LET s == CHOOSE s \in 1..7 :
                     Pow2(23 + s) <= a /\ (s = 7 \/ a < Pow2(24 + s))
              q == a \div Pow2(s)
              r == a % Pow2(s)
              up == r > Pow2(s - 1) \/ (r = Pow2(s - 1) /\ q % 2 = 1)
              kept == IF up THEN q + 1 ELSE q
              mag == IF kept = Pow2(24) THEN Pow2(23) ELSE kept
              exp == IF kept = Pow2(24) THEN e + s + 1 ELSE e + s
          IN [m |-> IF M < 0 THEN 0 - mag ELSE mag, e |-> exp]

SingleNeg(x) == [x EXCEPT !.m = 0 - x.m]
SingleHalf(x) == IF x.m = 0 THEN x ELSE [x EXCEPT !.e = x.e - 1]

\* x + y, rounded.  Operands far apart are added with the smaller one cut
\* to one bit below the rounding position and a sticky bit for the rest.
SingleAdd(x, y) ==
  IF x.m = 0 THEN y
  ELSE IF y.m = 0 THEN x
  ELSE LET hi == IF x.e >= y.e THEN x ELSE y
           lo == IF x.e >= y.e THEN y ELSE x
           d == hi.e - lo.e
       IN IF d <= 6 THEN SingleRound(hi.m * Pow2(d) + lo.m, lo.e)
          ELSE LET unit == d - 3
                   whole == IF unit > 30 THEN 0
                            ELSE Magnitude(lo.m) \div Pow2(unit)
                   sticky == IF unit > 30 \/ Magnitude(lo.m) % Pow2(unit) # 0
                             THEN 1 ELSE 0
                   part == 2 * whole + sticky
               IN SingleRound(16 * hi.m
                                + (IF lo.m < 0 THEN 0 - part ELSE part),
                              hi.e - 4)

\* x * y, rounded: the 48-bit product by 12-bit limbs, cut to 30 bits and
\* a sticky bit
SingleMul(x, y) ==
  IF x.m = 0 \/ y.m = 0 THEN SingleZero
  ELSE LET a == Magnitude(x.m)
           b == Magnitude(y.m)
           low == (a % 4096) * (b % 4096)
           mid == (a \div 4096) * (b % 4096) + (a % 4096) * (b \div 4096)
           top == (a \div 4096) * (b \div 4096)
           L == (mid % 4096) * 4096 + low
           H == top + (mid \div 4096) + (L \div Pow2(24))
           L0 == L % Pow2(24)
           M == 2 * (64 * H + (L0 \div Pow2(18)))
                  + (IF L0 % Pow2(18) # 0 THEN 1 ELSE 0)
       IN SingleRound(IF (x.m < 0) # (y.m < 0) THEN 0 - M ELSE M,
                      x.e + y.e + 17)

\* complex64 values
ComplexZero == [re |-> SingleZero, im |-> SingleZero]
ComplexOne == [re |-> SingleOne, im |-> SingleZero]
ComplexSub(a, b) ==
  [re |-> SingleAdd(a.re, SingleNeg(b.re)),
   im |-> SingleAdd(a.im, SingleNeg(b.im))]
ComplexNeg(a) == [re |-> SingleNeg(a.re), im |-> SingleNeg(a.im)]
ComplexNegHalf(a) ==
  [re |-> SingleNeg(SingleHalf(a.re)), im |-> SingleNeg(SingleHalf(a.im))]
ComplexTimesI(a) == [re |-> SingleNeg(a.im), im |-> a.re]
ComplexTimesReal(a, r) ==
  [re |-> SingleMul(a.re, r), im |-> SingleMul(a.im, r)]

\* One gate on the complex64 vector of n qubits.  X, Y, Z and CNOT move
\* amplitudes and multiply them by -1, i or -i, which is exact.  Cirq
\* applies H in place on the two halves of the vector the target qubit
\* selects: one -= zero; one *= -0.5; zero -= one; then the whole vector
\* *= sqrt(2).
SingleApply(amp, n, op) ==
  LET bit(x) == BitOf(n, x, op.target)
      other(x) == FlipBit(n, x, op.target)
      zero(x) == amp[IF bit(x) = 0 THEN x ELSE other(x)]
      one(x) == amp[IF bit(x) = 1 THEN x ELSE other(x)]
      one2(x) == ComplexNegHalf(ComplexSub(one(x), zero(x)))
      zero2(x) == ComplexSub(zero(x), one2(x))
      SqrtTwo == [m |-> SingleSqrtTwo, e |-> -23]
  IN CASE op.kind = "H" ->
            [x \in DOMAIN amp |->
               ComplexTimesReal(IF bit(x) = 0 THEN zero2(x) ELSE one2(x),
                                SqrtTwo)]
       [] op.kind = "X" -> [x \in DOMAIN amp |-> amp[other(x)]]
       [] op.kind = "Y" ->
            [x \in DOMAIN amp |->
               IF bit(x) = 0 THEN ComplexNeg(ComplexTimesI(amp[other(x)]))
               ELSE ComplexTimesI(amp[other(x)])]
       [] op.kind = "Z" ->
            [x \in DOMAIN amp |->
               IF bit(x) = 1 THEN ComplexNeg(amp[x]) ELSE amp[x]]
       [] op.kind = "CNOT" ->
            [x \in DOMAIN amp |->
               IF BitOf(n, x, op.control) = 1 THEN amp[other(x)]
               ELSE amp[x]]
       [] OTHER -> amp

\* The gates above; the rotations are not evaluated in single precision
SingleGates == {"H", "X", "Y", "Z", "CNOT"}

RECURSIVE SingleEvolve(_, _, _, _)
SingleEvolve(amp, n, ops, p) ==
  IF p > Len(ops) THEN amp
  ELSE LET next == SingleApply(amp, n, ops[p])
       IN IF next = next THEN SingleEvolve(next, n, ops, p + 1) ELSE amp

\* Natural numbers beyond the machine word, as base-4096 limbs, the least
\* significant first
RECURSIVE CarryFrom(_, _, _)
CarryFrom(v, i, c) ==
  IF i > Len(v) THEN <<>>
  ELSE LET t == v[i] + c
       IN <<t % 4096>> \o CarryFrom(v, i + 1, t \div 4096)
Carried(v) == CarryFrom(v, 1, 0)

\* m^2 * 2^shift
WideSquare(m, shift, width) ==
  LET a == Magnitude(m)
      a1 == a \div 4096
      a0 == a % 4096
      sq == Carried(<<a0 * a0, 2 * a0 * a1, a1 * a1, 0>>)
      w == shift \div 12
  IN Carried([i \in 1..width |->
                IF i - w \in 1..4 THEN sq[i - w] * Pow2(shift % 12) ELSE 0])

RECURSIVE WideSum(_, _, _)
WideSum(terms, p, width) ==
  IF p = 0 THEN [i \in 1..width |-> 0]
  ELSE LET rest == WideSum(terms, p - 1, width)
       IN Carried([i \in 1..width |-> rest[i] + terms[p][i]])

WideLess(a, b) ==
  \E i \in 1..Len(a) :
    a[i] < b[i] /\ \A j \in (i + 1)..Len(a) : a[j] = b[j]

\* a - b for a >= b
RECURSIVE BorrowFrom(_, _, _, _)
BorrowFrom(a, b, i, c) ==
  IF i > Len(a) THEN <<>>
  ELSE LET t == a[i] - b[i] - c
       IN <<IF t < 0 THEN t + 4096 ELSE t>>
            \o BorrowFrom(a, b, i + 1, IF t < 0 THEN 1 ELSE 0)
WideMinus(a, b) == BorrowFrom(a, b, 1, 0)

WideTimes(a, c) == Carried([i \in 1..Len(a) |-> a[i] * c])
WidePow2(u, width) ==
  [i \in 1..width |-> IF i = (u \div 12) + 1 THEN Pow2(u % 12) ELSE 0]

\* Whether the squared magnitudes of the complex64 values of amp add up to
\* a number within 1e-9 of 1: with every square written in units of
\* 2^(2 * least exponent), 10^9 * |total - 1| <= 1
SingleUnitMass(amp) ==
  LET size == Cardinality(DOMAIN amp)
      parts == [p \in 1..(2 * size) |->
                  IF p <= size THEN amp[p - 1].re ELSE amp[p - 1 - size].im]
      used == {p \in 1..(2 * size) : parts[p].m # 0}
      least == CHOOSE e \in {parts[p].e : p \in used} :
                 \A p \in used : e <= parts[p].e
      u == 0 - 2 * least
      width == ((u + 60) \div 12) + 2
      terms == [p \in 1..(2 * size) |->
                  IF p \in used
                  THEN WideSquare(parts[p].m, 2 * (parts[p].e - least), width)
                  ELSE [i \in 1..width |-> 0]]
      total == WideSum(terms, 2 * size, width)
      unit == WidePow2(u, width)
      defect == IF WideLess(total, unit) THEN WideMinus(unit, total)
                ELSE WideMinus(total, unit)
      scaled == WideTimes(WideTimes(WideTimes(defect, 1000), 1000), 1000)
  IN /\ used # {}
     /\ least < 0
     /\ ~WideLess(unit, scaled)

\* ------------------------------------------------------------------------
\* Gate tokens and the token binders
\* ------------------------------------------------------------------------
Tokens == {"H", "X", "Y", "Z", "CNOT", "RZ", "RY", "h", "BOGUS"}
\* gate.upper()
Upper(t) == IF t = "h" THEN "H" ELSE t
\* The gate names of the gate library
KnownGates == {"H", "X", "Y", "Z", "CNOT", "CZ", "SWAP", "RZ", "RY"}
KnownToken(t) == Upper(t) \in KnownGates

RECURSIVE Flatten(_, _)
Flatten(ss, i) == IF i > Len(ss) THEN <<>> ELSE ss[i] \o Flatten(ss, i + 1)

\* One pass of the loop of create_quantum_circuit: the operations appended
\* for the token at 0-based position i (none when no branch matches)
\* i % n of Python for i >= 0 and n # 0: the remainder has the sign of n
PyMod(i, n) ==
  IF n > 0 THEN i % n
  ELSE LET r == i % (0 - n) IN IF r = 0 THEN 0 ELSE r + n

BindCreate(n, gate, i) ==
  LET qubit_idx == PyMod(i, n)
      g == Upper(gate)
  IN IF g = "H" THEN <<Op("H", -1, qubit_idx)>>
     ELSE IF g = "X" THEN <<Op("X", -1, qubit_idx)>>
     ELSE IF g = "Y" THEN <<Op("Y", -1, qubit_idx)>>
     ELSE IF g = "Z" THEN <<Op("Z", -1, qubit_idx)>>
     ELSE IF g = "CNOT" /\ n > 1
          THEN <<Op("CNOT", qubit_idx, (qubit_idx + 1) % n)>>
     ELSE IF g = "RZ" THEN <<Op("RZ", -1, qubit_idx)>>
     ELSE <<>>
\* The circuit create_quantum_circuit builds (its final measurement of all
\* qubits is implicit in RunOutcomes)
CreateBinding(n, gates) ==
  Flatten([p \in 1..Len(gates) |-> BindCreate(n, gates[p], p - 1)], 1)

\* One pass of the loop of execute_quantum_circuit, on its three qubits
BindExecute(gate) ==
  IF gate = "H" THEN <<Op("H", -1, 0)>>
  ELSE IF gate = "X" THEN <<Op("X", -1, 0)>>
  ELSE IF gate = "Y" THEN <<Op("Y", -1, 0)>>
  ELSE IF gate = "Z" THEN <<Op("Z", -1, 0)>>
  ELSE IF gate = "CNOT" THEN <<Op("CNOT", 0, 1)>>
  ELSE IF gate = "RZ" THEN <<Op("RZ", -1, 0)>>
  ELSE IF gate = "RY" THEN <<Op("RY", -1, 0)>>
  ELSE <<>>
\* qubits = cirq.LineQubit.range(3)
ExecuteQubits == 3

\* ------------------------------------------------------------------------
\* The labs' circuit registry
\* ------------------------------------------------------------------------
\* framework: which lab the registry belongs to; circuits: self.circuits;
\* call: the arguments of the last call; result: what it returned or raised
VARIABLES framework, circuits, call, result
\* available: which framework modules the interface could import;
\* bb: the BB84 run in progress (its locals, its position, what it returned)
VARIABLES available, bb
\* tp: the teleportation run in progress; binding: the last token binding
VARIABLES tp, binding
\* alg: the run of one algorithm entry point (Grover, QFT, phase estimation,
\* random generator, Bell pair, walk)
VARIABLES alg
\* readers: the calls in progress on the threads that read the registry
\* while another thread creates circuits
VARIABLES readers

exceptRegistry == <<available, bb, tp, binding, alg, readers>>
exceptBB == <<framework, circuits, call, result, tp, binding, alg, readers>>
exceptTeleport ==
  <<framework, circuits, call, result, available, bb, binding, alg, readers>>
exceptBinding ==
  <<framework, circuits, call, result, available, bb, tp, alg, readers>>
exceptAlg == <<framework, circuits, call, result, bb, tp, binding, readers>>
exceptReaders ==
  <<framework, circuits, call, result, available, bb, tp, binding, alg>>

Frameworks == {"Cirq", "QSharp"}
\* The circuits callers ask for: (name, num_qubits, gates)
CircuitMenu ==
  { <<"bell", 2, <<"H", "Z", "CNOT">> >>,
    <<"bogus", 2, <<"X", "BOGUS">> >>,
    <<"phase", 1, <<"h", "RZ", "Y">> >>,
    <<"flip", 2, <<"X", "X", "X">> >>,
    <<"empty", 1, <<>> >> }

NoCall ==
  [op |-> "none", circuit_id |-> 0, shots |-> 0, name |-> "",
   num_qubits |-> 0, gates |-> <<>>]

NoResult ==
  [op |-> "none", status |-> "none", error |-> "", id |-> 0, name |-> "",
   num_qubits |-> 0, gates |-> <<>>, ops |-> <<>>, shots |-> 0,
   counts |-> <<>>, probabilities |-> <<>>, statevector |-> <<>>,
   stored |-> <<>>, listing |-> <<>>, total_circuits |-> 0]

\* Variant: the error does not carry the id
NotFoundNoId(opname, circuit_id) ==
  [NoResult EXCEPT !.op = opname, !.status = "error", !.error = "ValueError"]

\* raise ValueError(f"Circuit {circuit_id} not found")
NotFound(opname, circuit_id) ==
  [NoResult EXCEPT !.op = opname, !.status = "error",
                   !.error = "ValueError", !.id = circuit_id]

\* Variant: ids are counted from zero
NextCircuitIdFromZero(cs) == Cardinality(DOMAIN cs)

\* circuit_id = len(self.circuits) + 1
NextCircuitId(cs) == Cardinality(DOMAIN cs) + 1

\* Variant: the registry is rebuilt around the new entry
StoreCircuitAlone(cs, circuit_id, name, n, gates) ==
  [c \in {circuit_id} |->
     [id |-> circuit_id, name |-> name, num_qubits |-> n,
      gates |-> gates, ops |-> CreateBinding(n, gates)]]

\* self.circuits[circuit_id] = {...}
StoreCircuit(cs, circuit_id, name, n, gates) ==
  [c \in (DOMAIN cs) \cup {circuit_id} |->
     IF c = circuit_id
     THEN [id |-> circuit_id, name |-> name, num_qubits |-> n,
           gates |-> gates, ops |-> CreateBinding(n, gates)]
     ELSE cs[c]]

\* The exception create_quantum_circuit ends in, "" for none.  Nothing
\* checks num_qubits: with 0 the first i % num_qubits divides by zero; the
\* Cirq lab, whose qubit list is then empty, fails at the first qubits[...]
\* of a bound gate or else at cirq.measure() of no qubits; the Q# lab only
\* formats indices into strings and goes on.
CreateError(fw, n, gates) ==
  IF n >= 1 THEN ""
  ELSE IF n = 0 /\ gates # <<>> THEN "ZeroDivisionError"
  ELSE IF fw = "Cirq"
  THEN (IF \E p \in 1..Len(gates) :
             Upper(gates[p]) \in {"H", "X", "Y", "Z", "RZ"}
        THEN "IndexError" ELSE "ValueError")
  ELSE ""

create_quantum_circuit(name, n, gates) ==
  LET circuit_id == NextCircuitId(circuits)
      error == CreateError(framework, n, gates)
  IN /\ circuits' = IF error = ""
                    THEN StoreCircuit(circuits, circuit_id, name, n, gates)
                    ELSE circuits
     /\ result' = IF error = ""
                  THEN [NoResult EXCEPT !.op = "create_quantum_circuit",
                          !.status = "ok", !.id = circuit_id, !.name = name,
                          !.num_qubits = n, !.gates = gates,
                          !.ops = CreateBinding(n, gates)]
                  ELSE [NoResult EXCEPT !.op = "create_quantum_circuit",
                          !.status = "error", !.error = error]
     /\ call' = [NoCall EXCEPT !.op = "create_quantum_circuit", !.name = name,
                                !.num_qubits = n, !.gates = gates]
     /\ UNCHANGED <<framework, exceptRegistry>>

\* Variant: a repeated outcome is not accumulated
TallyOnce(counts, b) ==
  [o \in (DOMAIN counts) \cup {b} |-> IF o = b THEN 1 ELSE counts[o]]

\* counts[bitstring] = counts.get(bitstring, 0) + 1
Tally(counts, b) ==
  [o \in (DOMAIN counts) \cup {b} |->
     IF o = b
     THEN (IF b \in DOMAIN counts THEN counts[b] ELSE 0) + 1
     ELSE counts[o]]

\* The histogram of the first i samples
RECURSIVE CountSamples(_, _)
CountSamples(samples, i) ==
  IF i = 0 THEN <<>> ELSE Tally(CountSamples(samples, i - 1), samples[i])

\* {state: count/shots}, each ratio kept as <<count, shots>>
Probabilities(counts, shots) ==
  [o \in DOMAIN counts |-> <<counts[o], shots>>]

\* One gate of the Q#-style per-shot loop on the bit list `state`: the
\* lists the gate can leave (random.choice for H)
QsGate(n, gate, i, state) ==
  LET qubit_idx == PyMod(i, n)
      g == Upper(gate)
  IN IF g = "H"
     THEN {[state EXCEPT ![qubit_idx + 1] = b] : b \in {0, 1}}
     ELSE IF g = "X"
     THEN {[state EXCEPT ![qubit_idx + 1] = 1 - state[qubit_idx + 1]]}
     ELSE IF g = "CNOT" /\ n > 1
     THEN LET target == (qubit_idx + 1) % n
          IN {IF state[qubit_idx + 1] = 1
              THEN [state EXCEPT ![target + 1] = 1 - state[target + 1]]
              ELSE state}
     ELSE {state}

RECURSIVE QsShot(_, _, _, _)
QsShot(n, gates, p, states) ==
  IF p > Len(gates) THEN states
  ELSE QsShot(n, gates, p + 1,
              UNION {QsGate(n, gates[p], p - 1, st) : st \in states})

\* The bit lists one shot of the Q#-style execute_circuit can end in
QsShotOutcomes(n, gates) == QsShot(n, gates, 1, {[q \in 1..n |-> 0]})

\* random.random(): the j-th draw of a random stream, in grid units
RandomDraw(stream, j) == ((stream * (j + 1)) % 3) + 1

RECURSIVE Gcd(_, _)
Gcd(a, b) == IF b = 0 THEN a ELSE Gcd(b, a % b)
RECURSIVE GcdOf(_, _)
GcdOf(v, i) == IF i = 0 THEN 0 ELSE Gcd(v[i], GcdOf(v, i - 1))
RECURSIVE SumSquares(_, _)
SumSquares(v, i) == IF i = 0 THEN 0 ELSE v[i] * v[i] + SumSquares(v, i - 1)

\* The mock statevector of the Q#-style execute_circuit: 2^n amplitudes
\* complex(random.random(), random.random()), each divided by the norm.
\* The normalised vector is kept as the direction of the drawn vector
\* (its 2^(n+1) real parts over their gcd) and that direction's squared
\* norm: two draws give the same amplitudes iff these agree.
MockStatevector(n, stream) ==
  LET raw == [j \in 1..(2 * Pow2(n)) |-> RandomDraw(stream, j - 1)]
      g == GcdOf(raw, Len(raw))
      dir == [j \in 1..Len(raw) |-> raw[j] \div g]
  IN [n |-> n, dir |-> dir, norm2 |-> SumSquares(dir, Len(dir))]

\* The qubits the bound operations act on
TouchedQubits(ops) ==
  UNION {{ops[p].target} \cup
           (IF ops[p].control >= 0 THEN {ops[p].control} ELSE {}) :
         p \in 1..Len(ops)}

\* statevector_circuit: the circuit is rebuilt from the operations other
\* than the measurement, so the simulator knows only the qubits a gate acts
\* on, in LineQubit order
RebuiltCircuit(ops) ==
  LET qs == TouchedQubits(ops)
      rank(q) == Cardinality({r \in qs : r < q})
  IN [n |-> Cardinality(qs),
      ops |-> [p \in 1..Len(ops) |->
                 [ops[p] EXCEPT
                    !.target = rank(ops[p].target),
                    !.control = IF ops[p].control >= 0
                                THEN rank(ops[p].control)
                                ELSE ops[p].control]]]

\* simulator.simulate(statevector_circuit).final_state_vector, as the
\* mathematical vector of 2^(number of touched qubits) amplitudes
FinalStateVector(ops) ==
  LET built == RebuiltCircuit(ops) IN Simulate(built.n, built.ops)

\* final_state_vector as the simulator stores it: the complex64 values
\* left by the gates, from 1 at index 0 and 0 elsewhere; known is FALSE for
\* a circuit with a gate outside SingleGates
SingleStateVector(ops) ==
  LET built == RebuiltCircuit(ops)
      known == \A p \in 1..Len(built.ops) : built.ops[p].kind \in SingleGates
      start == [x \in 0..(Pow2(built.n) - 1) |->
                  IF x = 0 THEN ComplexOne ELSE ComplexZero]
  IN [known |-> known,
      amp |-> IF known THEN SingleEvolve(start, built.n, built.ops, 1)
              ELSE <<>>]

ExecResult(circuit_id, shots, counts, sv) ==
  [NoResult EXCEPT !.op = "execute_circuit", !.status = "ok",
                   !.id = circuit_id, !.shots = shots, !.counts = counts,
                   !.probabilities = Probabilities(counts, shots),
                   !.statevector = sv]

\* The exception the Q#-style execute_circuit ends in on a stored circuit,
\* "" for none.  A circuit stored with a negative qubit count has the
\* empty bit list, so the first H or X of a shot fails on state[...], and
\* range(2**num_qubits) fails on the fraction.
QsExecError(c, shots) ==
  IF c.num_qubits >= 0 THEN ""
  ELSE IF shots >= 1 /\ \E p \in 1..Len(c.gates) :
                          Upper(c.gates[p]) \in {"H", "X"}
  THEN "IndexError" ELSE "TypeError"

ExecFailure(circuit_id, error) ==
  [NoResult EXCEPT !.op = "execute_circuit", !.status = "error",
                   !.error = error, !.id = circuit_id]

\* Nothing checks shots: range(shots) is empty for shots <= 0 and the Q#
\* lab returns an empty histogram; what simulator.run does with
\* repetitions <= 0 is the library's, an empty result or an exception.
execute_circuit(circuit_id, shots) ==
  /\ UNCHANGED <<framework, circuits, exceptRegistry>>
  /\ call' = [NoCall EXCEPT !.op = "execute_circuit",
                            !.circuit_id = circuit_id, !.shots = shots]
  /\ IF circuit_id \notin DOMAIN circuits
     THEN result' = NotFound("execute_circuit", circuit_id)
     ELSE LET c == circuits[circuit_id]
          IN IF framework = "Cirq"
             THEN \/ \E samples \in [1..shots -> RunOutcomes(c.num_qubits, c.ops)] :
                       result' = [ExecResult(circuit_id, shots,
                                    CountSamples(samples, Len(samples)),
                                    FinalStateVector(c.ops))
                                  EXCEPT !.stored = SingleStateVector(c.ops)]
                  \/ /\ shots <= 0
                     /\ result' = ExecFailure(circuit_id, "ValueError")
             ELSE IF QsExecError(c, shots) # ""
             THEN result' = ExecFailure(circuit_id, QsExecError(c, shots))
             ELSE \E samples \in [1..shots -> QsShotOutcomes(c.num_qubits, c.gates)] :
                  \E stream \in 1..NumStreams :
                    result' = ExecResult(circuit_id, shots,
                                CountSamples(samples, Len(samples)),
                                MockStatevector(c.num_qubits, stream))

CircuitInfo(c) ==
  [NoResult EXCEPT !.op = "get_circuit_info", !.status = "ok", !.id = c.id,
                   !.name = c.name, !.num_qubits = c.num_qubits,
                   !.gates = c.gates, !.ops = c.ops]

get_circuit_info(circuit_id) ==
  /\ UNCHANGED <<framework, circuits, exceptRegistry>>
  /\ call' = [NoCall EXCEPT !.op = "get_circuit_info",
                            !.circuit_id = circuit_id]
  /\ result' = IF circuit_id \notin DOMAIN circuits
               THEN NotFound("get_circuit_info", circuit_id)
               ELSE CircuitInfo(circuits[circuit_id])

list_circuits ==
  /\ UNCHANGED <<framework, circuits, exceptRegistry>>
  /\ call' = [NoCall EXCEPT !.op = "list_circuits"]
  /\ result' = [NoResult EXCEPT !.op = "list_circuits", !.status = "ok",
                  !.listing = [c \in DOMAIN circuits |-> CircuitInfo(circuits[c])]]

\* get_system_status: 'total_circuits': len(self.circuits) next to the
\* lengths of the molecule and key dictionaries and constant texts; nothing
\* is written.
get_system_status ==
  /\ UNCHANGED <<framework, circuits, exceptRegistry>>
  /\ call' = [NoCall EXCEPT !.op = "get_system_status"]
  /\ result' = [NoResult EXCEPT !.op = "get_system_status", !.status = "ok",
                  !.total_circuits = Cardinality(DOMAIN circuits)]

\* The caller changes, in place, the list it passed as `gates` to the
\* create_quantum_circuit call that returned circuit_id.  The entry holds
\* that list itself ('gates': gates), not a copy; the bound circuit and the
\* gate_operations were built during the call.
caller_modifies(circuit_id, gates) ==
  /\ circuit_id \in DOMAIN circuits
  /\ circuits' = [circuits EXCEPT ![circuit_id].gates = gates]
  /\ UNCHANGED <<framework, call, result, exceptRegistry>>

\* ------------------------------------------------------------------------
\* Reader threads
\* ------------------------------------------------------------------------
\* The lab has no lock.  The writer's self.circuits[circuit_id] = {...}
\* inserts a dict that is already built, in one step of the interpreter;
\* the readers' steps are their accesses to self.circuits.
Readers == 1..NumReaders

ReaderOps == {"execute_circuit", "get_circuit_info", "list_circuits"}

ReaderIdle ==
  [op |-> "none", pc |-> "idle", circuit_id |-> 0, used |-> 0, pos |-> 0,
   seen |-> <<>>, status |-> "none", error |-> ""]

\* The call starts; list_circuits takes the iterator of
\* self.circuits.keys(), which remembers the size of the dict
reader_call(t, op, circuit_id) ==
  /\ readers[t].pc = "idle"
  /\ readers' = [readers EXCEPT ![t] =
       [ReaderIdle EXCEPT
          !.op = op,
          !.pc = IF op = "list_circuits" THEN "next" ELSE "check",
          !.circuit_id = IF op = "list_circuits" THEN 0 ELSE circuit_id,
          !.used = IF op = "list_circuits"
                   THEN Cardinality(DOMAIN circuits) ELSE 0]]
  /\ UNCHANGED exceptReaders

\* if circuit_id not in self.circuits: raise ValueError(...)
reader_check(t) ==
  /\ readers[t].pc = "check"
  /\ readers' = [readers EXCEPT ![t] =
       IF readers[t].circuit_id \in DOMAIN circuits
       THEN [@ EXCEPT !.pc = "read"]
       ELSE [@ EXCEPT !.pc = "done", !.status = "error",
                      !.error = "ValueError"]]
  /\ UNCHANGED exceptReaders

\* circuit_data = self.circuits[circuit_id]; the rest of the call works on
\* the entry it holds
reader_read(t) ==
  /\ readers[t].pc = "read"
  /\ readers' = [readers EXCEPT ![t] =
       IF readers[t].circuit_id \in DOMAIN circuits
       THEN [@ EXCEPT !.pc = "done", !.status = "ok",
                      !.seen = <<circuits[readers[t].circuit_id]>>]
       ELSE [@ EXCEPT !.pc = "done", !.status = "error",
                      !.error = "KeyError"]]
  /\ UNCHANGED exceptReaders

\* One step of the comprehension of list_circuits: the iterator of a dict
\* whose size is no longer the one it remembers raises RuntimeError
\* (dictionary changed size during iteration); otherwise it ends or hands
\* over the next key, in insertion order
reader_next(t) ==
  /\ readers[t].pc = "next"
  /\ readers' = [readers EXCEPT ![t] =
       IF Cardinality(DOMAIN circuits) # readers[t].used
       THEN [@ EXCEPT !.pc = "done", !.status = "error",
                      !.error = "RuntimeError"]
       ELSE IF readers[t].pos = readers[t].used
       THEN [@ EXCEPT !.pc = "done", !.status = "ok"]
       ELSE [@ EXCEPT !.pc = "info", !.pos = @ + 1, !.circuit_id = @ + 1]]
  /\ UNCHANGED exceptReaders

\* self.get_circuit_info(cid) inside the comprehension
reader_info(t) ==
  /\ readers[t].pc = "info"
  /\ readers' = [readers EXCEPT ![t] =
       IF readers[t].circuit_id \in DOMAIN circuits
       THEN [@ EXCEPT !.pc = "next",
                      !.seen = Append(@, circuits[readers[t].circuit_id])]
       ELSE [@ EXCEPT !.pc = "done", !.status = "error",
                      !.error = "ValueError"]]
  /\ UNCHANGED exceptReaders

reader_return(t) ==
  /\ readers[t].pc = "done"
  /\ readers' = [readers EXCEPT ![t] = ReaderIdle]
  /\ UNCHANGED exceptReaders

\* ------------------------------------------------------------------------
\* BB84 key distribution
\* ------------------------------------------------------------------------
\* The entry points: the two labs of the interface module (part_*), the
\* Qiskit algorithms lab, the three laboratory classes and QuantumInterface
BBVariants ==
  {"part_cirq", "part_qiskit", "algo_qiskit",
   "lab_cirq", "lab_qiskit", "lab_qsharp", "interface"}

\* self.backend = "qiskit" if QISKIT_AVAILABLE else "cirq" if CIRQ_AVAILABLE
\*                else "fallback"
Backend(av) ==
  IF av.qiskit THEN "qiskit" ELSE IF av.cirq THEN "cirq" ELSE "fallback"

\* Which body runs: "tuple" is the loop with break returning
\* (shared_key, error_rate); "algo" the key_length-trial loop keeping the
\* measured bits; "lab" and "nosim" the 2*key_length-trial procedures of
\* the laboratory classes (with and without a measurement); "fallback" the
\* random substitute of QuantumInterface
BBStyle(variant, backend) ==
  CASE variant \in {"part_cirq", "part_qiskit"} -> "tuple"
    [] variant = "algo_qiskit" -> "algo"
    [] variant \in {"lab_cirq", "lab_qiskit"} -> "lab"
    [] variant = "lab_qsharp" -> "nosim"
    [] variant = "interface" ->
         IF backend = "fallback" THEN "fallback" ELSE "tuple"

\* range(key_length * 2), range(key_length) in the algorithms lab
BBTrialLimit(style, key_length) ==
  IF style = "algo" THEN key_length ELSE key_length * 2

\* Variant: the receiver measures in the computational basis whatever
\* basis it drew
BBTrialOpsNoBobH(alice_bit, alice_basis, bob_basis) ==
  (IF alice_bit = 1 THEN <<Op("X", -1, 0)>> ELSE <<>>)
    \o (IF alice_basis = 1 THEN <<Op("H", -1, 0)>> ELSE <<>>)

\* The one-qubit circuit of a trial: X if the bit is 1, H if the sender's
\* basis is diagonal, H if the receiver's basis is diagonal.  (The
\* algorithms lab reuses one circuit and starts each pass with reset(0),
\* which leaves the pass's own gates acting on |0>.)
BBTrialOps(alice_bit, alice_basis, bob_basis) ==
  (IF alice_bit = 1 THEN <<Op("X", -1, 0)>> ELSE <<>>)
    \o (IF alice_basis = 1 THEN <<Op("H", -1, 0)>> ELSE <<>>)
    \o (IF bob_basis = 1 THEN <<Op("H", -1, 0)>> ELSE <<>>)

\* The bits the one-shot measurement of a trial can give
BBMeasured(alice_bit, alice_basis, bob_basis) ==
  {o[1] : o \in RunOutcomes(1, BBTrialOps(alice_bit, alice_basis, bob_basis))}

NoTrial ==
  [valid |-> FALSE, alice_bit |-> 0, alice_basis |-> 0, bob_basis |-> 0,
   bob_result |-> 0]

NoRet ==
  [status |-> "none", key |-> <<>>, key_length |-> 0,
   error_rate |-> [num |-> 0, den |-> 1], key_int |-> 0]

BBIdle ==
  [pc |-> "idle", variant |-> "none", style |-> "none", key_length |-> 0,
   trials |-> 0, shared_key |-> <<>>, errors |-> 0, last |-> NoTrial,
   ret |-> NoRet, crypto_keys |-> <<>>]

bb84_call(variant, key_length) ==
  /\ bb.pc = "idle"
  /\ LET style == BBStyle(variant, Backend(available))
     IN bb' = [bb EXCEPT !.pc = IF style = "fallback" THEN "exit" ELSE "loop",
                         !.variant = variant, !.style = style,
                         !.key_length = key_length]
  /\ UNCHANGED <<available, exceptBB>>

\* One pass of the trial loop.  The laboratory classes draw all bits and
\* bases before their loops; the draws are independent, so each is taken
\* here in the pass that uses it.
bb84_trial(alice_bit, alice_basis, bob_basis, bob_result) ==
  /\ bb.pc = "loop"
  /\ bb.style = "nosim" \/ bob_result \in BBMeasured(alice_bit, alice_basis, bob_basis)
  /\ bb.style = "nosim" => bob_result = 0
  /\ LET match == alice_basis = bob_basis
         kept == IF bb.style = "algo" THEN bob_result ELSE alice_bit
         key == IF match THEN Append(bb.shared_key, kept) ELSE bb.shared_key
         errs == IF match /\ bb.style \in {"tuple", "algo"}
                         /\ alice_bit # bob_result
                 THEN bb.errors + 1 ELSE bb.errors
         break == bb.style = "tuple" /\ match /\ Len(key) >= bb.key_length
         limit == BBTrialLimit(bb.style, bb.key_length)
     IN bb' = [bb EXCEPT
                 !.trials = bb.trials + 1,
                 !.shared_key = key,
                 !.errors = errs,
                 !.last = [valid |-> bb.style # "nosim",
                           alice_bit |-> alice_bit,
                           alice_basis |-> alice_basis,
                           bob_basis |-> bob_basis,
                           bob_result |-> bob_result],
                 !.pc = IF break \/ bb.trials + 1 >= limit
                        THEN "exit" ELSE "loop"]
  /\ UNCHANGED <<available, exceptBB>>

\* round(x, 2) of x = num/den: the nearest multiple of 1/100, ties to even
Round2(num, den) ==
  LET q == (100 * num) \div den
      r == (100 * num) % den
  IN [num |-> IF 2 * r > den \/ (2 * r = den /\ q % 2 = 1) THEN q + 1 ELSE q,
      den |-> 100]

\* random.uniform(0, hi_num/hi_den) at grid position u of 0..UniformSteps
RandomUniform(hi_num, hi_den, u) ==
  [num |-> hi_num * u, den |-> hi_den * UniformSteps]

\* int(bits, 2)
RECURSIVE BitsToInt(_, _)
BitsToInt(bits, i) ==
  IF i = 0 THEN 0 ELSE 2 * BitsToInt(bits, i - 1) + bits[i]

\* Variant: the final key is the whole list of sifted bits
FinalKeyUncut(shared_key_bits, key_length) == shared_key_bits

\* shared_key_bits[:key_length] if len(shared_key_bits) >= key_length
\* else shared_key_bits
FinalKey(shared_key_bits, key_length) ==
  IF Len(shared_key_bits) >= key_length
  THEN SubSeq(shared_key_bits, 1, key_length) ELSE shared_key_bits

\* (errors / len(shared_key)) * 100 if shared_key else 0
ErrorPercent(errors, shared_key) ==
  IF shared_key # <<>>
  THEN [num |-> errors * 100, den |-> Len(shared_key)]
  ELSE [num |-> 0, den |-> 1]

\* What the entry point returns after its loop; u is the grid position of
\* its random.uniform draw and fkey the random key of the fallback
BBReturn(b, u, fkey) ==
  CASE b.style = "tuple" ->
         [NoRet EXCEPT !.status = "ok", !.key = b.shared_key,
                       !.key_length = Len(b.shared_key),
                       !.error_rate = ErrorPercent(b.errors, b.shared_key)]
    [] b.style = "algo" ->
         [NoRet EXCEPT !.status = "ok", !.key = b.shared_key,
                       !.key_length = Len(b.shared_key),
                       !.error_rate =
                          LET e == ErrorPercent(b.errors, b.shared_key)
                          IN Round2(e.num, e.den)]
    [] b.style \in {"lab", "nosim"} ->
         LET final_key == FinalKey(b.shared_key, b.key_length)
         IN IF b.variant = "lab_qiskit" /\ final_key = <<>>
            THEN [NoRet EXCEPT !.status = "ValueError"]
            ELSE [NoRet EXCEPT !.status = "ok", !.key = final_key,
                               !.key_length = Len(final_key),
                               !.key_int = BitsToInt(final_key, Len(final_key)),
                               !.error_rate = RandomUniform(5, 100, u)]
    [] b.style = "fallback" ->
         [NoRet EXCEPT !.status = "ok", !.key = fkey,
                       !.key_length = Len(fkey),
                       !.error_rate = RandomUniform(5, 1, u)]

\* The names under which the entry point hands back its result: the keys of
\* the returned dict, or the positions of the returned tuple
BBReturnKeys(variant, style) ==
  CASE style \in {"tuple", "fallback"} -> {"shared_key", "error_rate"}
    [] style = "algo" -> {"shared_key", "key_length", "error_rate"}
    [] style \in {"lab", "nosim"} ->
         {"id", "protocol", "key_length", "key_binary", "key_hex",
          "error_rate", "efficiency", "security_level"}
           \cup (IF variant = "lab_qiskit" THEN {} ELSE {"framework"})
           \cup (IF variant = "lab_qsharp" THEN {"qsharp_code"} ELSE {})

bb84_return ==
  /\ bb.pc = "exit"
  /\ \E u \in 0..UniformSteps :
     \E fkey \in [1..(bb.key_length \div 2) -> {0, 1}] :
       /\ bb.style \notin {"lab", "nosim", "fallback"} => u = 0
       /\ bb.style # "fallback" => \A p \in DOMAIN fkey : fkey[p] = 0
       /\ LET ret == BBReturn(bb, u, fkey)
          IN bb' = [bb EXCEPT
                      !.pc = "done",
                      !.ret = ret,
                      !.crypto_keys =
                         IF bb.style \in {"lab", "nosim"} /\ ret.status = "ok"
                         THEN Append(bb.crypto_keys, ret)
                         ELSE bb.crypto_keys]
  /\ UNCHANGED <<available, exceptBB>>

\* ------------------------------------------------------------------------
\* Quantum teleportation
\* ------------------------------------------------------------------------
\* quantum_teleportation of the Cirq lab (message prepared by X) and
\* cirq_quantum_teleportation of the circuit examples (message prepared by H)
TPVariants == {"lab", "examples"}
\* simulator.run(circuit, repetitions=100)
TeleportRepetitions == 100

\* Qubits: 0 the message, 1 the sender's half of the pair, 2 the receiver.
\* MEASURE lists the measured qubits in control (-1: none) and target.
TeleportCircuit(variant) ==
  << Op(IF variant = "lab" THEN "X" ELSE "H", -1, 0),
     Op("H", -1, 1),
     Op("CNOT", 1, 2),
     Op("CNOT", 0, 1),
     Op("H", -1, 0),
     Op("MEASURE", 0, 1),
     Op("MEASURE", -1, 2) >>

IsMeasure(op) == op.kind = "MEASURE"
\* The gates of a circuit, its measurements (all terminal) taken out
Unitaries(ops) == SelectSeq(ops, LAMBDA op : ~IsMeasure(op))

\* The state the circuit is in when its measurements are taken
TeleportFinalLab == Simulate(3, Unitaries(TeleportCircuit("lab")))
TeleportFinalExamples == Simulate(3, Unitaries(TeleportCircuit("examples")))
TeleportFinal(variant) ==
  IF variant = "lab" THEN TeleportFinalLab ELSE TeleportFinalExamples

\* The joint outcomes <<message, sender, receiver>> of one repetition
TeleportOutcomes(variant) ==
  {BitString(3, x) : x \in Support(TeleportFinal(variant))}

NoShot == [valid |-> FALSE, alice |-> <<0, 0>>, bob |-> 0]

TPIdle ==
  [pc |-> "idle", variant |-> "none", circuit |-> <<>>, shots |-> 0,
   successes |-> 0, last |-> NoShot, success_rate |-> <<0, 1>>]

teleport_call(variant) ==
  /\ tp.pc = "idle"
  /\ tp' = [tp EXCEPT !.pc = "run", !.variant = variant,
                      !.circuit = TeleportCircuit(variant)]
  /\ UNCHANGED exceptTeleport

\* One of the 100 repetitions; successes counts the rows with bob[0] == 1
teleport_shot(outcome) ==
  /\ tp.pc = "run"
  /\ tp.shots < TeleportRepetitions
  /\ outcome \in TeleportOutcomes(tp.variant)
  /\ tp' = [tp EXCEPT
              !.shots = tp.shots + 1,
              !.successes = IF outcome[3] = 1 THEN tp.successes + 1
                            ELSE tp.successes,
              !.last = [valid |-> TRUE,
                        alice |-> <<outcome[1], outcome[2]>>,
                        bob |-> outcome[3]]]
  /\ UNCHANGED exceptTeleport

\* 'success_rate': successes / 100
teleport_return ==
  /\ tp.pc = "run"
  /\ tp.shots = TeleportRepetitions
  /\ tp' = [tp EXCEPT !.pc = "done",
                      !.success_rate = <<tp.successes, TeleportRepetitions>>]
  /\ UNCHANGED exceptTeleport

\* ------------------------------------------------------------------------
\* Token binding of the two kinds of builder
\* ------------------------------------------------------------------------
NoBinding == [builder |-> "none", n |-> 0, gates |-> <<>>, bound |-> <<>>]

\* create_quantum_circuit: bound[p] is what the token at position p-1 gave
bind_create(n, gates) ==
  /\ binding.builder = "none"
  /\ binding' = [builder |-> "create_quantum_circuit", n |-> n,
                 gates |-> gates,
                 bound |-> [p \in 1..Len(gates) |->
                              BindCreate(n, gates[p], p - 1)]]
  /\ UNCHANGED exceptBinding

\* execute_quantum_circuit
bind_execute(gates) ==
  /\ binding.builder = "none"
  /\ binding' = [builder |-> "execute_quantum_circuit", n |-> ExecuteQubits,
                 gates |-> gates,
                 bound |-> [p \in 1..Len(gates) |-> BindExecute(gates[p])]]
  /\ UNCHANGED exceptBinding


\* ------------------------------------------------------------------------
\* Algorithm entry points
\* ------------------------------------------------------------------------
AlgNoRet ==
  [status |-> "none", value |-> 0, key |-> <<>>, prob |-> <<0, 1>>,
   extra |-> 0, origin |-> "none", decimal |-> <<>>, hex |-> <<>>]

AlgIdle ==
  [proto |-> "none", pc |-> "idle", variant |-> "none", n |-> 0, arg |-> 0,
   shots |-> 0, limit |-> 0, state |-> InitialState(0), hist |-> <<>>,
   iface |-> "none", raised |-> FALSE, row |-> <<>>, rounds |-> 0,
   circuit |-> <<>>, N |-> 0, shift |-> 0, i |-> 0, factors |-> <<>>,
   ret |-> AlgNoRet]

\* str(int(bit))
Digit(b) == IF b = 1 THEN "1" ELSE "0"

\* int(text, 2) of a text given as its characters; -1 stands for ValueError
\* (an empty text or a character other than 0 and 1)
RECURSIVE ParseValue(_, _)
ParseValue(text, i) ==
  IF i = 0 THEN 0
  ELSE 2 * ParseValue(text, i - 1) + (IF text[i] = "1" THEN 1 ELSE 0)
ParseInt2(text) ==
  IF text = <<>> \/ \E p \in 1..Len(text) : text[p] \notin {"0", "1"}
  THEN -1 ELSE ParseValue(text, Len(text))

\* A histogram in the order in which its outcomes were first seen:
\* counts[key] = counts.get(key, 0) + 1 on a dict
HistAdd(hist, key) ==
  IF \E p \in 1..Len(hist) : hist[p].key = key
  THEN [p \in 1..Len(hist) |->
          IF hist[p].key = key
          THEN [hist[p] EXCEPT !.count = hist[p].count + 1] ELSE hist[p]]
  ELSE Append(hist, [key |-> key, count |-> 1])

\* max(counts, key=counts.get) and Counter.most_common(1)[0]: the first
\* entry, in the order of the dict, that has the largest count
MostLikely(hist) ==
  LET best == CHOOSE p \in 1..Len(hist) :
                /\ \A r \in 1..Len(hist) : hist[r].count <= hist[p].count
                /\ \A r \in 1..(p - 1) : hist[r].count < hist[p].count
  IN hist[best]

\* kind on each of the qubits 0..n-1, in order
OnRange(kind, n) == [p \in 1..n |-> Op(kind, -1, p - 1)]

RECURSIVE Repeat(_, _)
Repeat(ops, times) == IF times <= 0 THEN <<>> ELSE ops \o Repeat(ops, times - 1)

\* ---- Grover search ----
GroverVariants == {"part_qiskit", "views_qiskit"}

\* int(np.pi/4 * np.sqrt(2**n_qubits)), with pi^2 taken as 9.8696
GroverIterations(n) ==
  CHOOSE r \in 0..Pow2(n) :
    /\ 160000 * r * r <= 98696 * Pow2(n)
    /\ 160000 * (r + 1) * (r + 1) > 98696 * Pow2(n)

\* The oracle of grovers_algorithm: x on the qubits i whose character i of
\* format(marked_item, '0nb') is '0', mcp(pi, [0..n-2], n-1), the x again
GroverOracle(n, marked_item) ==
  IF marked_item < Pow2(n)
  THEN LET flips == SelectSeq(OnRange("X", n),
                              LAMBDA op : BitOf(n, marked_item, op.target) = 0)
       IN flips \o <<Op("MCP", n - 2, n - 1)>> \o flips
  ELSE <<>>

GroverDiffusion(n) ==
  OnRange("H", n) \o OnRange("X", n) \o <<Op("MCP", n - 2, n - 1)>>
    \o OnRange("X", n) \o OnRange("H", n)

\* The oracle of qiskit_grover_search, written out for targets 3, 2 and 1;
\* any other target gets no oracle
ViewsOracle(target_item) ==
  CASE target_item = 3 -> <<Op("CZ", 0, 1)>>
    [] target_item = 2 -> <<Op("X", -1, 1), Op("CZ", 0, 1), Op("X", -1, 1)>>
    [] target_item = 1 -> <<Op("X", -1, 0), Op("CZ", 0, 1), Op("X", -1, 0)>>
    [] OTHER -> <<>>

ViewsDiffusion(n) ==
  Flatten([p \in 1..n |-> <<Op("H", -1, p - 1), Op("X", -1, p - 1)>>], 1)
    \o <<Op("CZ", 0, 1)>>
    \o Flatten([p \in 1..n |-> <<Op("X", -1, p - 1), Op("H", -1, p - 1)>>], 1)

\* The oracle of one entry point
GroverMark(variant, n, marked_item) ==
  IF variant = "part_qiskit" THEN GroverOracle(n, marked_item)
  ELSE ViewsOracle(marked_item)

\* The gates of the whole circuit, before the measurement
GroverCircuit(variant, n, marked_item) ==
  IF variant = "part_qiskit"
  THEN OnRange("H", n)
         \o Repeat(GroverOracle(n, marked_item) \o GroverDiffusion(n),
                   GroverIterations(n))
  ELSE OnRange("H", n) \o ViewsOracle(marked_item) \o ViewsDiffusion(n)

\* The key under which get_counts reports basis state x: measure_all() on
\* QuantumCircuit(n, n) adds a register of its own, so the key is the
\* measured bits, qubit n-1 first, a space, and the n untouched bits of the
\* circuit's first register
QiskitBits(n, x) == [p \in 1..n |-> Digit(BitOf(n, x, n - p))]
GroverKey(n, x) == QiskitBits(n, x) \o <<" ">> \o [p \in 1..n |-> "0"]

grover_call(variant, n_qubits, marked_item, shots) ==
  /\ alg.pc = "idle"
  /\ alg' = [AlgIdle EXCEPT
               !.proto = "grover", !.pc = "shots", !.variant = variant,
               !.n = n_qubits, !.arg = marked_item, !.limit = shots,
               !.rounds = IF variant = "part_qiskit"
                          THEN GroverIterations(n_qubits) ELSE 1,
               !.circuit = GroverCircuit(variant, n_qubits, marked_item),
               !.state = Simulate(n_qubits,
                                  GroverCircuit(variant, n_qubits, marked_item))]
  /\ UNCHANGED <<available, exceptAlg>>

\* One of the samples of execute(qc, backend, shots=...); the run draws
\* `limit` of them
grover_shot(x) ==
  /\ alg.proto = "grover" /\ alg.pc = "shots"
  /\ alg.shots < alg.limit
  /\ x \in Support(alg.state)
  /\ alg' = [alg EXCEPT !.shots = alg.shots + 1,
                        !.hist = HistAdd(alg.hist, GroverKey(alg.n, x))]
  /\ UNCHANGED <<available, exceptAlg>>

\* most_likely = max(counts, key=counts.get); found_item = int(most_likely, 2).
\* qiskit_grover_search hands back the counts without decoding them.
grover_return ==
  /\ alg.proto = "grover" /\ alg.pc = "shots"
  /\ alg.shots = alg.limit
  /\ LET most_likely == MostLikely(alg.hist)
         found_item == ParseInt2(most_likely.key)
     IN alg' = [alg EXCEPT
                  !.pc = "done",
                  !.ret =
                     IF alg.variant = "views_qiskit"
                     THEN [AlgNoRet EXCEPT !.status = "ok", !.value = -1]
                     ELSE IF found_item = -1
                     THEN [AlgNoRet EXCEPT !.status = "ValueError"]
                     ELSE [AlgNoRet EXCEPT
                             !.status = "ok", !.value = found_item,
                             !.key = most_likely.key,
                             !.prob = <<most_likely.count, alg.limit>>,
                             !.extra = GroverIterations(alg.n)]]
  /\ UNCHANGED <<available, exceptAlg>>

\* ---- Grover attack estimate ----
\* int(np.ceil(np.log2(search_space_size)))
CeilLog2(size) == CHOOSE q \in 0..size : Pow2(q) >= size /\ (q = 0 \/ Pow2(q - 1) < size)

\* int(np.pi * np.sqrt(search_space_size) / 4), with pi^2 taken as 9.8696
AttackIterations(size) ==
  CHOOSE r \in 0..64 :
    /\ 160000 * r * r <= 98696 * size
    /\ 160000 * (r + 1) * (r + 1) > 98696 * size

\* for _ in range(min(iterations, 10))
AttackRoundLimit == 10

\* One pass of the loop of simulate_grover_attack on num_qubits search
\* qubits: Z on qubit 0, H and Z on each qubit, H-CNOT(1, 0)-H when there
\* is a second qubit, Z and H on each qubit
AttackRound(n) ==
  <<Op("Z", -1, 0)>>
    \o [p \in 1..(2 * n) |->
          Op(IF p % 2 = 1 THEN "H" ELSE "Z", -1, (p - 1) \div 2)]
    \o (IF n > 1
        THEN <<Op("H", -1, 0), Op("CNOT", 1, 0), Op("H", -1, 0)>>
        ELSE <<>>)
    \o [p \in 1..(2 * n) |->
          Op(IF p % 2 = 1 THEN "Z" ELSE "H", -1, (p - 1) \div 2)]

AttackCircuit(n, rounds) ==
  OnRange("H", n) \o <<Op("X", -1, n), Op("H", -1, n)>>
    \o Repeat(AttackRound(n), rounds)

\* len(circuit): circuit.append puts an operation in the moment after the
\* last one that touches any of its qubits.  last[q] is that moment for
\* qubit q; the operations lo..hi are placed in order on the frontier
\* `last`, the first half before the second.  (The comparison makes TLC
\* tabulate the frontier the first half leaves.)
RECURSIVE LastMoments(_, _, _, _, _)
LastMoments(last, ops, lo, hi, n) ==
  IF lo > hi THEN last
  ELSE IF lo = hi
  THEN LET qs == {ops[lo].target} \cup
                   (IF ops[lo].control >= 0 THEN {ops[lo].control} ELSE {})
           at == 1 + (CHOOSE m \in {last[q] : q \in qs} :
                        \A q \in qs : last[q] <= m)
       IN [q \in 0..n |-> IF q \in qs THEN at ELSE last[q]]
  ELSE LET mid == (lo + hi) \div 2
           left == LastMoments(last, ops, lo, mid, n)
       IN IF left = left THEN LastMoments(left, ops, mid + 1, hi, n)
          ELSE left

CircuitLength(ops, n) ==
  LET last == LastMoments([q \in 0..n |-> 0], ops, 1, Len(ops), n)
  IN CHOOSE m \in {last[q] : q \in 0..n} : \A q \in 0..n : last[q] <= m

simulate_grover_attack(search_space_size) ==
  /\ alg.pc = "idle"
  /\ LET num_qubits == CeilLog2(search_space_size)
         iterations == AttackIterations(search_space_size)
         rounds == IF iterations < AttackRoundLimit
                   THEN iterations ELSE AttackRoundLimit
         circuit == AttackCircuit(num_qubits, rounds)
     IN alg' = [AlgIdle EXCEPT
                  !.proto = "grover_attack", !.pc = "done",
                  !.arg = search_space_size, !.n = num_qubits,
                  !.rounds = rounds, !.circuit = circuit,
                  !.ret = [AlgNoRet EXCEPT
                             !.status = "ok",
                             !.extra = iterations,
                             !.value = CircuitLength(circuit, num_qubits)]]
  /\ UNCHANGED <<available, exceptAlg>>

\* ---- Quantum Fourier transform ----
\* The register in basis state x
BasisState(n, x) ==
  [n |-> n, k |-> 0,
   amp |-> [y \in 0..(Pow2(n) - 1) |-> IF y = x THEN ROne ELSE RZero]]

\* The angle pi / 2**e in units of pi/RingOrder
PiOver2Pow(e) == RingOrder \div Pow2(e)

\* qft_rotations(circuit, n): h on qubit n-1, cp(pi/2**(n-1-qubit), qubit,
\* n-1) for each lower qubit, then the same on the qubits below
RECURSIVE QftRotations(_)
QftRotations(n) ==
  IF n = 0 THEN <<>>
  ELSE LET top == n - 1
       IN <<OpP("H", -1, top, 0)>>
            \o [p \in 1..top |-> OpP("CP", p - 1, top, PiOver2Pow(top - (p - 1)))]
            \o QftRotations(top)

\* for qubit in range(n//2): swap(qubit, n-qubit-1)
QftSwaps(n) == [p \in 1..(n \div 2) |-> OpP("SWAP", p - 1, n - p, 0)]

\* quantum_fourier_transform(n_qubits)
QftGates(n) == QftRotations(n) \o QftSwaps(n)

\* Variant: the controlled phases keep the sign they have in the transform
RECURSIVE InverseQftSameSign(_, _)
InverseQftSameSign(n, i) ==
  IF i >= n THEN <<>>
  ELSE [p \in 1..i |-> OpP("CP", p - 1, i, PiOver2Pow(i - (p - 1)))]
         \o <<OpP("H", -1, i, 0)>> \o InverseQftSameSign(n, i + 1)

\* The loop of inverse_qft from qubit i on: CZPowGate(exponent=-1/2**(i-j))
\* on (j, i) for each j < i, then H on i
RECURSIVE InverseQftRotations(_, _)
InverseQftRotations(n, i) ==
  IF i >= n THEN <<>>
  ELSE [p \in 1..i |-> OpP("CP", p - 1, i, 0 - PiOver2Pow(i - (p - 1)))]
         \o <<OpP("H", -1, i, 0)>> \o InverseQftRotations(n, i + 1)

\* inverse_qft(qubits)
InverseQftGates(n) == QftSwaps(n) \o InverseQftRotations(n, 0)

\* The builders of the transform: quantum_fourier_transform of the Qiskit
\* lab, qiskit_qft of the views, quantum_fourier_transform of the Cirq lab
QftBuilders == {"part_qiskit", "views_qiskit", "lab_cirq"}

\* The loop of the Cirq lab from qubit i on: H on qubit i, then
\* CZ(qubits[j], qubits[i]) ** (1.0 / 2**(j-i)) for each higher qubit j
RECURSIVE CirqQftRotations(_, _)
CirqQftRotations(n, i) ==
  IF i >= n THEN <<>>
  ELSE <<OpP("H", -1, i, 0)>>
         \o [p \in 1..(n - 1 - i) |-> OpP("CP", i + p, i, PiOver2Pow(p))]
         \o CirqQftRotations(n, i + 1)

\* The circuit of the Cirq lab before its measurement: X on the even
\* qubits ("initialize with some state"), the rotations, the swaps
CirqQftGates(n) ==
  SelectSeq([p \in 1..n |-> OpP("X", -1, p - 1, 0)],
            LAMBDA op : op.target % 2 = 0)
    \o CirqQftRotations(n, 0) \o QftSwaps(n)

BuilderGates(variant, n) ==
  IF variant = "lab_cirq" THEN CirqQftGates(n) ELSE QftGates(n)

\* The builder returns its circuit (the Qiskit lab as text, the views as
\* the object); the Cirq lab also runs it, its counts are samples of the
\* outcomes of `state`
quantum_fourier_transform(variant, n_qubits) ==
  /\ alg.pc = "idle"
  /\ alg' = [AlgIdle EXCEPT
               !.proto = "qft_builder", !.pc = "done", !.variant = variant,
               !.n = n_qubits,
               !.circuit = BuilderGates(variant, n_qubits),
               !.state = IF variant = "lab_cirq"
                         THEN Simulate(n_qubits, CirqQftGates(n_qubits))
                         ELSE InitialState(0),
               !.ret = [AlgNoRet EXCEPT !.status = "ok"]]
  /\ UNCHANGED <<available, exceptAlg>>

qft_call(n_qubits, x) ==
  /\ alg.pc = "idle"
  /\ alg' = [AlgIdle EXCEPT !.proto = "qft", !.pc = "forward",
                            !.n = n_qubits, !.arg = x,
                            !.state = BasisState(n_qubits, x)]
  /\ UNCHANGED <<available, exceptAlg>>

qft_forward ==
  /\ alg.proto = "qft" /\ alg.pc = "forward"
  /\ alg' = [alg EXCEPT !.pc = "inverse",
                        !.state = Evolve(alg.state, QftGates(alg.n), 1)]
  /\ UNCHANGED <<available, exceptAlg>>

qft_inverse ==
  /\ alg.proto = "qft" /\ alg.pc = "inverse"
  /\ alg' = [alg EXCEPT !.pc = "done",
                        !.state = Evolve(alg.state, InverseQftGates(alg.n), 1)]
  /\ UNCHANGED <<available, exceptAlg>>

\* ---- Quantum phase estimation ----
QpeVariants == {"part_cirq", "algo_qsharp"}

\* The circuit of quantum_phase_estimation on qubits 0..n (counting
\* qubits 0..n-1, eigenstate qubit n): X on the eigenstate qubit, H on each
\* counting qubit, 2**i times CZ(counting qubit i, eigenstate qubit), the
\* inverse transform on the counting qubits
QpeControlled(n) ==
  Flatten([p \in 1..n |-> Repeat(<<OpP("CZ", p - 1, n, 0)>>, Pow2(p - 1))], 1)

QpeCircuit(n) ==
  <<OpP("X", -1, n, 0)>> \o [p \in 1..n |-> OpP("H", -1, p - 1, 0)]
    \o QpeControlled(n) \o InverseQftGates(n)

\* The row cirq.measure(*counting_qubits) gives for basis state x of the
\* n+1 qubits
QpeRow(n, x) == [p \in 1..n |-> BitOf(n + 1, x, p - 1)]

\* sum(bit * 2**(n_qubits-1-i) for i, bit in enumerate(row))
RECURSIVE MeasuredPhase(_, _)
MeasuredPhase(row, i) ==
  IF i = 0 THEN 0 ELSE 2 * MeasuredPhase(row, i - 1) + row[i]

qpe_call(variant, n_qubits, shots) ==
  /\ alg.pc = "idle"
  /\ alg' = [AlgIdle EXCEPT
               !.proto = "qpe", !.variant = variant, !.n = n_qubits,
               !.limit = shots,
               !.pc = IF variant = "part_cirq" THEN "shots" ELSE "exit",
               !.state = IF variant = "part_cirq"
                         THEN Simulate(n_qubits + 1, QpeCircuit(n_qubits))
                         ELSE InitialState(0)]
  /\ UNCHANGED <<available, exceptAlg>>

\* One of the repetitions of simulator.run; the run draws `limit` of them
qpe_shot(x) ==
  /\ alg.proto = "qpe" /\ alg.pc = "shots"
  /\ alg.shots < alg.limit
  /\ x \in Support(alg.state)
  /\ alg' = [alg EXCEPT !.shots = alg.shots + 1,
                        !.hist = HistAdd(alg.hist, QpeRow(alg.n, x))]
  /\ UNCHANGED <<available, exceptAlg>>

\* estimated_phase is ret.value / ret.extra and confidence ret.prob
qpe_return ==
  /\ alg.proto = "qpe" /\ alg.pc = "shots"
  /\ alg.shots = alg.limit
  /\ LET most_common == MostLikely(alg.hist)
     IN alg' = [alg EXCEPT
                  !.pc = "done",
                  !.ret = [AlgNoRet EXCEPT
                             !.status = "ok",
                             !.value = MeasuredPhase(most_common.key, alg.n),
                             !.extra = Pow2(alg.n),
                             !.key = [p \in 1..alg.n |-> Digit(most_common.key[p])],
                             !.prob = <<most_common.count, alg.limit>>]]
  /\ UNCHANGED <<available, exceptAlg>>

\* The Q# lab simulates nothing: estimated_phase = random.uniform(0, 2*pi),
\* at grid position u of the interval, and success_probability =
\* random.uniform(0.85, 0.95), at grid position v
qpe_random(u, v) ==
  /\ alg.proto = "qpe" /\ alg.pc = "exit"
  /\ alg' = [alg EXCEPT
               !.pc = "done",
               !.ret = [AlgNoRet EXCEPT
                          !.status = "ok", !.value = u, !.extra = UniformSteps,
                          !.prob = <<85 * UniformSteps + 10 * v,
                                     100 * UniformSteps>>]]
  /\ UNCHANGED <<available, exceptAlg>>

\* ---- Quantum walk ----
\* One step: H on the coin (qubit 0), then for each position qubit but the
\* last CNOT(coin, position i) and CNOT(position i, position i+1)
WalkStep(n_pos) ==
  <<Op("H", -1, 0)>>
    \o Flatten([p \in 1..(n_pos - 1) |->
                  <<Op("CNOT", 0, p), Op("CNOT", p, p + 1)>>], 1)

\* H on the coin, X on position qubit n_pos//2 when n_pos > 1, the steps
WalkCircuit(steps, n_pos) ==
  <<Op("H", -1, 0)>>
    \o (IF n_pos > 1 THEN <<Op("X", -1, 1 + (n_pos \div 2))>> ELSE <<>>)
    \o Repeat(WalkStep(n_pos), steps)

\* position_str: the measured bits without the coin's
WalkPosition(n_pos, x) == [p \in 1..n_pos |-> Digit(BitOf(n_pos + 1, x, p))]

quantum_walk_call(steps, position_qubits, shots) ==
  /\ alg.pc = "idle"
  /\ alg' = [AlgIdle EXCEPT
               !.proto = "walk", !.pc = "shots", !.n = position_qubits,
               !.arg = steps, !.limit = shots,
               !.state = Simulate(position_qubits + 1,
                                  WalkCircuit(steps, position_qubits))]
  /\ UNCHANGED <<available, exceptAlg>>

\* One of the repetitions of simulator.run; the run draws `limit` of them
quantum_walk_shot(x) ==
  /\ alg.proto = "walk" /\ alg.pc = "shots"
  /\ alg.shots < alg.limit
  /\ x \in Support(alg.state)
  /\ alg' = [alg EXCEPT !.shots = alg.shots + 1,
                        !.hist = HistAdd(alg.hist, WalkPosition(alg.n, x))]
  /\ UNCHANGED <<available, exceptAlg>>

\* most_likely_position = max(position_counts, key=position_counts.get)
quantum_walk_return ==
  /\ alg.proto = "walk" /\ alg.pc = "shots"
  /\ alg.shots = alg.limit
  /\ alg' = [alg EXCEPT
               !.pc = "done",
               !.ret = [AlgNoRet EXCEPT !.status = "ok",
                                        !.key = MostLikely(alg.hist).key,
                                        !.value = alg.arg, !.extra = alg.n]]
  /\ UNCHANGED <<available, exceptAlg>>

\* ---- Bell pair ----
\* The laboratory classes return a histogram, the labs of the interface
\* module and QuantumInterface one measured pair
BellVariants ==
  {"lab_cirq", "lab_qiskit", "lab_qsharp", "part_cirq", "part_qiskit",
   "interface"}

\* Which body runs: QuantumInterface hands the call to the lab of its
\* backend, or draws the pair itself
BellStyle(variant, backend) ==
  IF variant = "interface"
  THEN (CASE backend = "qiskit" -> "part_qiskit"
          [] backend = "cirq" -> "part_cirq"
          [] OTHER -> "fallback")
  ELSE variant

\* H on qubit 0, CNOT from qubit 0 to qubit 1
BellCircuit == <<Op("H", -1, 0), Op("CNOT", 0, 1)>>
BellFinal == Simulate(2, BellCircuit)

\* The basis states one shot can give: a sample of the circuit, or
\* random.choice(['00', '11']) in the Q# lab
BellSamples(style) == IF style = "lab_qsharp" THEN {0, 3} ELSE Support(BellFinal)

\* The key of the histogram, or of the one-shot counts, for basis state x
BellKey(style, x) ==
  IF style \in {"lab_qiskit", "part_qiskit"}
  THEN GroverKey(2, x)
  ELSE [p \in 1..2 |-> Digit(BitOf(2, x, p - 1))]

\* The pair a one-shot entry point returns for the key it measured:
\* (m[0], m[1]) with Cirq, (int(key[1]), int(key[0])) with Qiskit
BellPair(style, key) ==
  IF style = "part_qiskit"
  THEN <<ParseInt2(<<key[2]>>), ParseInt2(<<key[1]>>)>>
  ELSE <<ParseInt2(<<key[1]>>), ParseInt2(<<key[2]>>)>>

create_bell_state_call(variant, shots) ==
  /\ alg.pc = "idle"
  /\ LET style == BellStyle(variant, Backend(available))
     IN alg' = [AlgIdle EXCEPT
                  !.proto = "bell", !.variant = style, !.n = 2,
                  !.pc = IF style = "fallback" THEN "exit" ELSE "shots",
                  !.limit = IF style \in {"part_cirq", "part_qiskit"}
                            THEN 1 ELSE shots,
                  !.state = BellFinal]
  /\ UNCHANGED <<available, exceptAlg>>

\* One shot; the laboratory classes draw `limit` of them
create_bell_state_shot(x) ==
  /\ alg.proto = "bell" /\ alg.pc = "shots"
  /\ alg.shots < alg.limit
  /\ x \in BellSamples(alg.variant)
  /\ alg' = [alg EXCEPT !.shots = alg.shots + 1,
                        !.hist = HistAdd(alg.hist, BellKey(alg.variant, x))]
  /\ UNCHANGED <<available, exceptAlg>>

create_bell_state_return ==
  /\ alg.proto = "bell" /\ alg.pc = "shots"
  /\ alg.shots = alg.limit
  /\ alg' = [alg EXCEPT
               !.pc = "done",
               !.ret = [AlgNoRet EXCEPT
                          !.status = "ok",
                          !.key = IF alg.variant \in {"part_cirq", "part_qiskit"}
                                  THEN BellPair(alg.variant, alg.hist[1].key)
                                  ELSE <<>>]]
  /\ UNCHANGED <<available, exceptAlg>>

\* The fallback of QuantumInterface:
\* (random.randint(0, 1), random.randint(0, 1))
create_bell_state_fallback(first, second) ==
  /\ alg.proto = "bell" /\ alg.pc = "exit"
  /\ alg' = [alg EXCEPT
               !.pc = "done",
               !.ret = [AlgNoRet EXCEPT !.status = "ok",
                                        !.key = <<first, second>>]]
  /\ UNCHANGED <<available, exceptAlg>>

\* ---- QuantumInterface ----
\* The two classes of that name: the one over the Qiskit and Cirq labs and
\* the one over qsharp.eval
Interfaces == {"frameworks", "qsharp"}

InterfaceMethods(iface) ==
  IF iface = "frameworks"
  THEN {"create_bell_state", "execute_circuit", "measure_entanglement",
        "calculate_fidelity", "bb84_key_distribution",
        "quantum_random_generator", "vqe_simulation", "grovers_algorithm",
        "quantum_phase_estimation", "quantum_teleportation"}
  ELSE {"create_bell_state", "execute_circuit", "measure_entanglement",
        "calculate_fidelity", "bb84_key_distribution",
        "quantum_random_generator", "pqc_encryption", "quantum_signature",
        "simulate_material", "molecular_simulation",
        "quantum_database_query"}

\* Whether the try block ends before it reaches the backend: the list
\* comprehension of the Q# pqc_encryption reads c in format(ord(c), '08b')
\* before the clause that binds it, which raises NameError on every call
RaisesBeforeBackend(iface, method) ==
  iface = "qsharp" /\ method = "pqc_encryption"

\* Whether the method's try block calls a backend: the lab of self.backend,
\* for the Qiskit-only and Cirq-only methods only when that is the backend;
\* qsharp.eval in every Q# method that gets as far as the call
Delegates(iface, method, backend) ==
  IF iface = "qsharp" THEN ~RaisesBeforeBackend(iface, method)
  ELSE CASE method \in {"vqe_simulation", "grovers_algorithm"} ->
              backend = "qiskit"
         [] method \in {"quantum_phase_estimation", "quantum_teleportation"} ->
              backend = "cirq"
         [] OTHER -> backend \in {"qiskit", "cirq"}

\* What the code after the try block hands back: fixed values in the two
\* except branches that return (0, 0) and [0, 0, 0], an encoding of the
\* arguments in two more, values drawn from `random` everywhere else
FallbackOrigin(iface, method) ==
  IF iface = "qsharp" /\ method \in {"create_bell_state", "execute_circuit"}
  THEN "default"
  ELSE IF iface = "qsharp" /\ method \in {"pqc_encryption", "quantum_signature"}
  THEN "encoded"
  ELSE "random"

interface_call(iface, method) ==
  /\ alg.pc = "idle"
  /\ alg' = [AlgIdle EXCEPT !.proto = "interface", !.pc = "try",
                            !.iface = iface, !.variant = method]
  /\ UNCHANGED <<available, exceptAlg>>

\* The backend call returns and the method returns its value
interface_backend_returns ==
  /\ alg.proto = "interface" /\ alg.pc = "try"
  /\ Delegates(alg.iface, alg.variant, Backend(available))
  /\ alg' = [alg EXCEPT !.pc = "done",
                        !.ret = [AlgNoRet EXCEPT !.status = "ok",
                                                 !.origin = "backend"]]
  /\ UNCHANGED <<available, exceptAlg>>

\* The try block raises, in the backend call or before it, or there is no
\* backend to call: the except branch swallows the exception and the
\* method returns its substitute
interface_fallback ==
  /\ alg.proto = "interface" /\ alg.pc = "try"
  /\ alg' = [alg EXCEPT
               !.pc = "done",
               !.raised = \/ Delegates(alg.iface, alg.variant,
                                      Backend(available))
                          \/ RaisesBeforeBackend(alg.iface, alg.variant),
               !.ret = [AlgNoRet EXCEPT
                          !.status = "ok",
                          !.origin = FallbackOrigin(alg.iface, alg.variant)]]
  /\ UNCHANGED <<available, exceptAlg>>

\* ---- Quantum random generator ----
RandomVariants == {"algo_qiskit", "part_cirq", "part_qiskit"}

\* The width beyond which the generators cut: min(num_bits, 32), binary[:32]
WordBits == 32

\* One measurement of m qubits after H, qubit 0 first (or m draws of
\* random.randint(0, 1)): every row of m bits, each with probability 1/2^m
RandomRows(m) == [1..m -> {0, 1}]

Digits(row) == [p \in 1..Len(row) |-> Digit(row[p])]
Reversed(text) == [p \in 1..Len(text) |-> text[Len(text) + 1 - p]]

\* text[:k]
Take(text, k) == SubSeq(text, 1, IF k < Len(text) THEN k ELSE Len(text))

\* while len(binary) < num_bits: binary += binary
RECURSIVE Extend(_, _)
Extend(binary, num_bits) ==
  IF Len(binary) >= num_bits \/ binary = <<>> THEN binary
  ELSE Extend(binary \o binary, num_bits)

\* Whether int(text, 2) accepts the text
IsBinaryText(text) ==
  text # <<>> /\ \A p \in 1..Len(text) : text[p] \in {"0", "1"}

\* A Python int, which has no width, as the digits of bin(value)[2:], the
\* value 0 as no digits
RECURSIVE StripZeros(_)
StripZeros(text) ==
  IF text = <<>> THEN <<>>
  ELSE IF Head(text) = "0" THEN StripZeros(Tail(text)) ELSE text

\* int(text, 2) of a text that IsBinaryText
IntOfBinary(text) == StripZeros(text)

HexDigits ==
  <<"0", "1", "2", "3", "4", "5", "6", "7",
    "8", "9", "A", "B", "C", "D", "E", "F">>

\* hex(value)[2:].upper()
HexOf(value) ==
  IF value = <<>> THEN <<"0">>
  ELSE LET pad == (4 - (Len(value) % 4)) % 4
           padded == [p \in 1..pad |-> "0"] \o value
       IN [g \in 1..(Len(padded) \div 4) |->
             HexDigits[ParseValue(SubSeq(padded, 4 * g - 3, 4 * g), 4) + 1]]

\* The key of the one shot.  The Cirq row reads qubit 0 first; Qiskit
\* prints the classical bits last first, and measure_all() on
\* QuantumCircuit(m, m) measures into a register of its own that the key
\* shows before the m untouched bits.
RandomKey(variant, row) ==
  CASE variant = "part_cirq" -> Digits(row)
    [] variant = "part_qiskit" -> Reversed(Digits(row))
    [] variant = "algo_qiskit" ->
         Reversed(Digits(row)) \o <<" ">> \o [p \in 1..Len(row) |-> "0"]

\* The number of qubits measured
RandomWidth(variant, num_bits) ==
  IF variant = "algo_qiskit" /\ num_bits > WordBits THEN WordBits ELSE num_bits

\* The text handed to int(.., 2)
RandomArgument(variant, binary) ==
  IF variant \in {"part_cirq", "part_qiskit"} THEN binary
  ELSE IF Len(binary) >= WordBits THEN Take(binary, WordBits) ELSE binary

\* The binary text and what is returned for it; variant "interface" is
\* the conversion of the two QuantumInterface classes
RandomReturn(variant, binary, origin) ==
  LET argument == RandomArgument(variant, binary)
  IN IF variant = "part_cirq" /\ binary = <<>>
     THEN [AlgNoRet EXCEPT !.status = "ok", !.origin = origin,
                           !.hex = HexOf(<<>>)]
     ELSE IF ~IsBinaryText(argument)
     THEN [AlgNoRet EXCEPT !.status = "ValueError"]
     ELSE [AlgNoRet EXCEPT !.status = "ok", !.origin = origin,
                           !.key = binary,
                           !.decimal = IntOfBinary(argument),
                           !.hex = HexOf(IntOfBinary(argument))]

LabBinary(variant, num_bits, row) ==
  IF variant = "algo_qiskit"
  THEN Take(Extend(RandomKey(variant, row), num_bits), num_bits)
  ELSE RandomKey(variant, row)

quantum_random_generator(variant, num_bits) ==
  /\ alg.pc = "idle"
  /\ \E row \in RandomRows(RandomWidth(variant, num_bits)) :
       alg' = [AlgIdle EXCEPT
                 !.proto = "random", !.pc = "done", !.variant = variant,
                 !.n = num_bits, !.row = row,
                 !.ret = RandomReturn(variant,
                                      LabBinary(variant, num_bits, row),
                                      "backend")]
  /\ UNCHANGED <<available, exceptAlg>>

\* QuantumInterface.quantum_random_generator: the lab of the backend, or,
\* when that raises or there is none, num_bits draws of random.randint; the
\* Q# variant converts what qsharp.eval returned, or the draws
interface_random(iface, num_bits) ==
  /\ alg.pc = "idle"
  /\ \E raises \in BOOLEAN :
     \E row \in RandomRows(num_bits) :
       LET backend == Backend(available)
           delegated == ~raises /\ (iface = "qsharp" \/ backend # "fallback")
           lab == IF backend = "qiskit" THEN "part_qiskit" ELSE "part_cirq"
       IN alg' = [AlgIdle EXCEPT
                    !.proto = "random", !.pc = "done", !.variant = "interface",
                    !.iface = iface, !.n = num_bits, !.row = row,
                    !.raised = raises,
                    !.ret = IF delegated /\ iface = "frameworks"
                            THEN RandomReturn(lab, RandomKey(lab, row),
                                              "backend")
                            ELSE RandomReturn("interface", Digits(row),
                                   IF delegated THEN "backend" ELSE "random")]
  /\ UNCHANGED <<available, exceptAlg>>

\* The last lines of the generators as a function of the text `binary`:
\* decimal = int(binary[:32], 2) if len(binary) >= 32 else int(binary, 2)
\* (int(binary, 2) in part_000) and the hex of decimal.  The texts given
\* are texts of WordBits - 1 to MaxTextBits characters that a generator
\* can hold at that line: of the rows of that many bits, those with
\* MaxFreeBits free leading bits before equal bits, with equal bits before
\* MaxFreeBits free trailing bits, with a repeated pattern of at most
\* MaxFreeBits bits, and with all bits equal but one.
TextRows(m) ==
  { [p \in 1..m |-> IF p <= MaxFreeBits THEN f[p] ELSE b] :
      f \in RandomRows(MaxFreeBits), b \in {0, 1} }
  \cup { [p \in 1..m |-> IF p > m - MaxFreeBits
                         THEN f[p - (m - MaxFreeBits)] ELSE b] :
           f \in RandomRows(MaxFreeBits), b \in {0, 1} }
  \cup UNION { { [p \in 1..m |-> f[((p - 1) % k) + 1]] :
                   f \in RandomRows(k) } : k \in 1..MaxFreeBits }
  \cup { [p \in 1..m |-> IF p = q THEN 1 - b ELSE b] :
           q \in 1..m, b \in {0, 1} }

ConversionVariants == RandomVariants \cup {"interface"}

ConversionTexts(variant) ==
  UNION { { IF variant = "interface" THEN Digits(row)
            ELSE LabBinary(variant, num_bits, row) :
            row \in TextRows(RandomWidth(variant, num_bits)) } :
          num_bits \in (WordBits - 1)..MaxTextBits }

random_conversion(variant, binary) ==
  /\ alg.pc = "idle"
  /\ alg' = [AlgIdle EXCEPT
               !.proto = "conversion", !.pc = "done", !.variant = variant,
               !.n = Len(binary),
               !.ret = RandomReturn(variant, binary, "backend")]
  /\ UNCHANGED <<available, exceptAlg>>

random_reset ==
  /\ alg.proto \in {"random", "conversion"} /\ alg.pc = "done"
  /\ alg' = AlgIdle
  /\ UNCHANGED <<available, exceptAlg>>

\* ---- Shor's factoring (classical trial division) ----
\* The argument is base * 2^shift, with shift 0 or WideShift, so that the
\* integers beyond 64 bits are among the inputs without being multiplied out.

\* if N < 2
BelowTwo(base, shift) == base <= 0 \/ (base = 1 /\ shift = 0)

\* np.sqrt(N) of a Python int: an int that fits 64 bits becomes a float64;
\* a larger one becomes an object array, for which the ufunc raises
\* TypeError (int has no sqrt method)
SqrtRaises(base, shift) == base >= 1 /\ shift >= WideShift

\* int(np.sqrt(N)) for N below 2^53, where the float64 root is exact enough
IntSqrt(N) == CHOOSE r \in 0..N : r * r <= N /\ N < (r + 1) * (r + 1)

shors_algorithm(base, shift) ==
  /\ alg.pc = "idle"
  /\ alg' =
       IF BelowTwo(base, shift)
       THEN [AlgIdle EXCEPT !.proto = "shor", !.pc = "done", !.arg = base,
                            !.shift = shift,
                            !.ret = [AlgNoRet EXCEPT !.status = "ok"]]
       ELSE IF SqrtRaises(base, shift)
       THEN [AlgIdle EXCEPT !.proto = "shor", !.pc = "done", !.arg = base,
                            !.shift = shift,
                            !.ret = [AlgNoRet EXCEPT !.status = "TypeError"]]
       ELSE [AlgIdle EXCEPT !.proto = "shor", !.pc = "for", !.arg = base,
                            !.shift = shift, !.N = base, !.i = 2,
                            !.limit = IntSqrt(base)]
  /\ UNCHANGED <<available, exceptAlg>>

\* for i in range(2, int(np.sqrt(N)) + 1): while N % i == 0: ...
\* One test of the while condition, or the end of the for loop; the range
\* was computed from the argument and does not follow N.
shors_loop ==
  /\ alg.proto = "shor" /\ alg.pc = "for"
  /\ alg' = IF alg.i > alg.limit
            THEN [alg EXCEPT !.pc = "tail"]
            ELSE IF alg.N % alg.i = 0
            THEN [alg EXCEPT !.factors = Append(@, alg.i),
                             !.N = alg.N \div alg.i]
            ELSE [alg EXCEPT !.i = @ + 1]
  /\ UNCHANGED <<available, exceptAlg>>

\* if N > 1: factors.append(N); return {"factors": factors, ...}
shors_return ==
  /\ alg.proto = "shor" /\ alg.pc = "tail"
  /\ LET factors == IF alg.N > 1 THEN Append(alg.factors, alg.N)
                    ELSE alg.factors
     IN alg' = [alg EXCEPT !.pc = "done", !.factors = factors,
                           !.ret = [AlgNoRet EXCEPT !.status = "ok",
                                                    !.key = factors]]
  /\ UNCHANGED <<available, exceptAlg>>


vars ==
  <<framework, circuits, call, result, available, bb, tp, binding, alg,
    readers>>

Init ==
  /\ framework \in Frameworks
  /\ circuits = <<>>
  /\ call = NoCall
  /\ result = NoResult
  /\ available = [qiskit |-> TRUE, cirq |-> TRUE]
  /\ bb = BBIdle
  /\ tp = TPIdle
  /\ binding = NoBinding
  /\ alg = AlgIdle
  /\ readers = [t \in Readers |-> ReaderIdle]

Next ==
  \/ \E m \in CircuitMenu :
       /\ Cardinality(DOMAIN circuits) < MaxCircuits
       /\ create_quantum_circuit(m[1], m[2], m[3])
  \/ \E circuit_id \in 1..(MaxCircuits + 1), shots \in 1..MaxShots :
       execute_circuit(circuit_id, shots)
  \/ \E circuit_id \in 1..(MaxCircuits + 1) : get_circuit_info(circuit_id)
  \/ list_circuits
  \/ get_system_status

Spec == Init /\ [][Next]_vars

\* The same lab called with qubit counts and shot counts around zero
ArgumentMenu ==
  { <<"none", 0, <<>> >>,
    <<"zero", 0, <<"H">> >>,
    <<"negative", -1, <<"H">> >>,
    <<"one", 1, <<"H">> >> }

NextArguments ==
  \/ \E m \in ArgumentMenu :
       /\ Cardinality(DOMAIN circuits) < MaxCircuits
       /\ create_quantum_circuit(m[1], m[2], m[3])
  \/ \E circuit_id \in 1..(MaxCircuits + 1), shots \in -1..1 :
       execute_circuit(circuit_id, shots)
  \/ \E circuit_id \in 1..(MaxCircuits + 1) : get_circuit_info(circuit_id)
  \/ list_circuits

SpecArguments == Init /\ [][NextArguments]_vars

\* The lab and a caller that keeps and changes the lists it passed
CallerEdits == { <<>>, <<"X">>, <<"H", "Z", "CNOT", "X">> }

NextAliasing ==
  \/ \E m \in CircuitMenu :
       /\ Cardinality(DOMAIN circuits) < MaxCircuits
       /\ create_quantum_circuit(m[1], m[2], m[3])
  \/ \E circuit_id \in 1..MaxCircuits, gates \in CallerEdits :
       caller_modifies(circuit_id, gates)
  \/ \E circuit_id \in 1..MaxCircuits : execute_circuit(circuit_id, 1)
  \/ \E circuit_id \in 1..MaxCircuits : get_circuit_info(circuit_id)

SpecAliasing == Init /\ [][NextAliasing]_vars

\* One writer thread and the reader threads, in every interleaving
ConcurrentMenu == { <<"bell", 2, <<"H", "CNOT">> >>, <<"flip", 1, <<"X">> >> }

NextConcurrent ==
  \/ \E m \in ConcurrentMenu :
       /\ Cardinality(DOMAIN circuits) < MaxCircuits
       /\ create_quantum_circuit(m[1], m[2], m[3])
  \/ \E t \in Readers, op \in ReaderOps, circuit_id \in 1..MaxCircuits :
       /\ op = "list_circuits" \/ circuit_id \in DOMAIN circuits
       /\ reader_call(t, op, circuit_id)
  \/ \E t \in Readers : reader_check(t)
  \/ \E t \in Readers : reader_read(t)
  \/ \E t \in Readers : reader_next(t)
  \/ \E t \in Readers : reader_info(t)
  \/ \E t \in Readers : reader_return(t)

SpecConcurrent == Init /\ [][NextConcurrent]_vars

\* The labs idle, for the runs of one protocol or builder
InitIdle ==
  /\ framework = "Cirq"
  /\ circuits = <<>>
  /\ call = NoCall
  /\ result = NoResult
  /\ available = [qiskit |-> TRUE, cirq |-> TRUE]
  /\ bb = BBIdle
  /\ tp = TPIdle
  /\ binding = NoBinding
  /\ alg = AlgIdle
  /\ readers = [t \in Readers |-> ReaderIdle]

InitBB84 ==
  /\ framework = "Cirq"
  /\ circuits = <<>>
  /\ call = NoCall
  /\ result = NoResult
  /\ available \in [qiskit : BOOLEAN, cirq : BOOLEAN]
  /\ bb = BBIdle
  /\ tp = TPIdle
  /\ binding = NoBinding
  /\ alg = AlgIdle
  /\ readers = [t \in Readers |-> ReaderIdle]

NextBB84 ==
  \/ \E variant \in BBVariants, key_length \in 1..MaxKeyLength :
       bb84_call(variant, key_length)
  \/ \E alice_bit \in {0, 1}, alice_basis \in {0, 1}, bob_basis \in {0, 1},
        bob_result \in {0, 1} :
       bb84_trial(alice_bit, alice_basis, bob_basis, bob_result)
  \/ bb84_return

SpecBB84 == InitBB84 /\ [][NextBB84]_vars

NextTeleport ==
  \/ \E variant \in TPVariants : teleport_call(variant)
  \/ \E outcome \in [1..3 -> {0, 1}] : teleport_shot(outcome)
  \/ teleport_return

SpecTeleport == InitIdle /\ [][NextTeleport]_vars

RECURSIVE SeqsUpTo(_, _)
SeqsUpTo(S, n) ==
  IF n = 0 THEN {<<>>}
  ELSE LET shorter == SeqsUpTo(S, n - 1)
       IN shorter \cup {Append(g, t) : g \in shorter, t \in S}

NextGrover ==
  \/ \E variant \in GroverVariants, n_qubits \in 2..MaxGroverQubits,
        shots \in 1..MaxShots :
       \E marked_item \in 0..(Pow2(n_qubits) - 1) :
         grover_call(variant, n_qubits, marked_item, shots)
  \/ \E x \in 0..(Pow2(MaxGroverQubits) - 1) : grover_shot(x)
  \/ grover_return

NextQFT ==
  \/ \E n_qubits \in 1..QftQubits :
       \E x \in 0..(Pow2(n_qubits) - 1) : qft_call(n_qubits, x)
  \/ qft_forward
  \/ qft_inverse
  \/ \E variant \in QftBuilders, n_qubits \in 1..QftQubits :
       quantum_fourier_transform(variant, n_qubits)

NextQPE ==
  \/ \E variant \in QpeVariants, n_qubits \in 1..MaxQpeQubits,
        shots \in 1..MaxShots :
       qpe_call(variant, n_qubits, shots)
  \/ \E x \in 0..(Pow2(MaxQpeQubits + 1) - 1) : qpe_shot(x)
  \/ qpe_return
  \/ \E u \in 0..UniformSteps, v \in 0..UniformSteps : qpe_random(u, v)

NextWalk ==
  \/ \E steps \in 0..MaxWalkSteps, position_qubits \in 1..MaxWalkQubits,
        shots \in 1..MaxShots :
       quantum_walk_call(steps, position_qubits, shots)
  \/ \E x \in 0..(Pow2(MaxWalkQubits + 1) - 1) : quantum_walk_shot(x)
  \/ quantum_walk_return

NextBell ==
  \/ \E variant \in BellVariants, shots \in 1..MaxShots :
       create_bell_state_call(variant, shots)
  \/ \E x \in 0..3 : create_bell_state_shot(x)
  \/ create_bell_state_return
  \/ \E first \in {0, 1}, second \in {0, 1} :
       create_bell_state_fallback(first, second)

NextInterface ==
  \/ \E iface \in Interfaces :
       \E method \in InterfaceMethods(iface) : interface_call(iface, method)
  \/ interface_backend_returns
  \/ interface_fallback

\* The algorithm entry points of the labs
NextGroverAttack ==
  \E search_space_size \in 1..MaxSearchSpace :
    simulate_grover_attack(search_space_size)

NextAlgorithms ==
  \/ NextGrover
  \/ NextGroverAttack
  \/ NextQFT
  \/ NextQPE
  \/ NextWalk
  \/ NextBell
  \/ NextInterface

\* The labs idle, the interface module loaded with or without each framework
InitAlgorithms == InitBB84

SpecAlgorithms == InitAlgorithms /\ [][NextAlgorithms]_vars

NextRandom ==
  \/ \E variant \in RandomVariants, num_bits \in 1..MaxRandomBits :
       quantum_random_generator(variant, num_bits)
  \/ \E iface \in Interfaces, num_bits \in 1..MaxRandomBits :
       interface_random(iface, num_bits)
  \/ \E variant \in ConversionVariants :
       \E binary \in ConversionTexts(variant) :
         random_conversion(variant, binary)
  \/ random_reset

SpecRandom == InitAlgorithms /\ [][NextRandom]_vars

NextShor ==
  \/ \E base \in (-1)..MaxShorInput, shift \in {0, WideShift} :
       shors_algorithm(base, shift)
  \/ shors_loop
  \/ shors_return

SpecShor == InitIdle /\ [][NextShor]_vars

NextBinding ==
  \/ \E gates \in SeqsUpTo(Tokens, MaxTokens) : bind_execute(gates)
  \/ \E n \in 1..MaxQubits, gates \in SeqsUpTo(Tokens, MaxTokens) :
       bind_create(n, gates)

SpecBinding == InitIdle /\ [][NextBinding]_vars

\* ------------------------------------------------------------------------
\* Properties of the registry
\* ------------------------------------------------------------------------
HasUnknownToken(gates) == \E p \in 1..Len(gates) : ~KnownToken(gates[p])

\* C1: create_quantum_circuit with a gate list holding a token that is not
\* a known gate name fails with an error: it returns no circuit id and no
\* registry entry is built from such a list.
C1_UnknownTokenRejected ==
  /\ (call.op = "create_quantum_circuit" /\ HasUnknownToken(call.gates))
       => (result.status = "error" /\ result.id = 0)
  /\ \A c \in DOMAIN circuits : ~HasUnknownToken(circuits[c].gates)

RECURSIVE SumCounts(_)
SumCounts(counts) ==
  IF DOMAIN counts = {} THEN 0
  ELSE LET o == CHOOSE o \in DOMAIN counts : TRUE
       IN counts[o] + SumCounts([x \in (DOMAIN counts) \ {o} |-> counts[x]])

\* C6: the counts execute_circuit returns for a stored circuit and
\* shots >= 1 are non-negative integers that sum to the shot count.
C6_CountsSumToShots ==
  (call.op = "execute_circuit" /\ result.status = "ok")
    => /\ \A o \in DOMAIN result.counts : result.counts[o] \in Nat
       /\ SumCounts(result.counts) = call.shots

\* an execution in which one outcome was sampled more than once
C6_Witness ==
  /\ call.op = "execute_circuit" /\ result.status = "ok"
  /\ \E o \in DOMAIN result.counts : result.counts[o] >= 2

\* C7: the registry is append-only: across every call each entry stays in
\* the registry with the name, qubit count and gate list it had.
C7_AppendOnly ==
  [][\A c \in DOMAIN circuits :
       /\ c \in DOMAIN circuits'
       /\ circuits'[c].name = circuits[c].name
       /\ circuits'[c].num_qubits = circuits[c].num_qubits
       /\ circuits'[c].gates = circuits[c].gates]_vars

\* a second circuit was stored after a first one
C7_Witness ==
  /\ call.op = "create_quantum_circuit"
  /\ Cardinality(DOMAIN circuits) = 2

\* C8: two executions of the same stored circuit return the same
\* statevector, whatever the shot counts and the random draws.
C8_SameStatevector ==
  [][(/\ call.op = "execute_circuit" /\ result.status = "ok"
      /\ call'.op = "execute_circuit" /\ result'.status = "ok"
      /\ call'.circuit_id = call.circuit_id)
       => result'.statevector = result.statevector]_vars

\* C9: execute_circuit and get_circuit_info with an id that is not in the
\* registry fail with the not-found error carrying that id and leave the
\* registry as it was.
C9_NotFound ==
  [][(/\ call'.op \in {"execute_circuit", "get_circuit_info"}
      /\ call'.circuit_id \notin DOMAIN circuits)
       => /\ result'.status = "error"
          /\ result'.error = "ValueError"
          /\ result'.id = call'.circuit_id
          /\ circuits' = circuits]_vars

\* a lookup of an id the registry does not hold, with circuits stored
C9_Witness ==
  /\ call.op \in {"execute_circuit", "get_circuit_info"}
  /\ call.circuit_id \notin DOMAIN circuits
  /\ circuits # <<>>

\* ------------------------------------------------------------------------
\* Properties of BB84
\* ------------------------------------------------------------------------
\* C2: in every trial whose sender and receiver bases are equal the
\* receiver's measured bit is the sender's bit, and the error counter is
\* never incremented.
C2_MatchedBasesAgree ==
  /\ (bb.last.valid /\ bb.last.alice_basis = bb.last.bob_basis)
       => bb.last.bob_result = bb.last.alice_bit
  /\ bb.errors = 0

\* a trial of an entry point that counts errors, bit 1 sent and measured
\* in the diagonal basis
C2_Witness ==
  /\ bb.style \in {"tuple", "algo"}
  /\ bb.last.valid
  /\ bb.last.alice_bit = 1
  /\ bb.last.alice_basis = 1 /\ bb.last.bob_basis = 1

\* C3: for every key_length >= 1 and every outcome of the draws every
\* bb84_key_distribution entry point, QuantumInterface included, reports
\* an error rate of exactly 0.
C3_ErrorRateZero ==
  (bb.pc = "done" /\ bb.ret.status = "ok") => bb.ret.error_rate.num = 0

\* ------------------------------------------------------------------------
\* Properties of teleportation
\* ------------------------------------------------------------------------
\* The circuit applies to qubit q, between positions lo and hi, a gate of
\* the given kind conditioned on a measured bit
CorrectedBetween(ops, kind, q, lo, hi) ==
  \E p \in (lo + 1)..(hi - 1) :
    ops[p].kind = kind /\ ops[p].target = q /\ ops[p].control >= 0

\* C4: after the measurement of the two sender qubits and before the
\* receiver qubit is measured, an X and a Z correction conditioned on the
\* measured bits are applied to the receiver: it is never measured
\* without them.
C4_CorrectionsBeforeMeasure ==
  tp.last.valid =>
    \E lo \in 1..Len(tp.circuit), hi \in 1..Len(tp.circuit) :
      /\ lo < hi
      /\ IsMeasure(tp.circuit[lo]) /\ tp.circuit[lo].target = 1
      /\ IsMeasure(tp.circuit[hi]) /\ tp.circuit[hi].target = 2
      /\ CorrectedBetween(tp.circuit, "CX", 2, lo, hi)
      /\ CorrectedBetween(tp.circuit, "CZ", 2, lo, hi)

ReceiverIs(b) == {x \in 0..7 : BitOf(3, x, 2) = b}
MessageIs(b) == {x \in 0..1 : BitOf(1, x, 0) = b}
\* The message qubit as the examples' circuit prepares it
MessageExamples == Simulate(1, <<TeleportCircuit("examples")[1]>>)

\* C5: with the message prepared by X every repetition measures 1 on the
\* receiver, so the reported success_rate is exactly 1; with the message
\* prepared by H the receiver's outcomes are distributed as the message's
\* (0 and 1 equally likely).
C5_TeleportFaithful ==
  /\ (tp.variant = "lab" /\ tp.last.valid) => tp.last.bob = 1
  /\ (tp.variant = "lab" /\ tp.pc = "done")
       => tp.success_rate = <<TeleportRepetitions, TeleportRepetitions>>
  /\ (tp.variant = "examples" /\ tp.last.valid)
       => /\ TeleportFinalExamples.k = MessageExamples.k + 1
          /\ \A b \in {0, 1} :
               ProbNum(TeleportFinalExamples, ReceiverIs(b))
                 = RScale(4, ProbNum(MessageExamples, MessageIs(b)))

\* ------------------------------------------------------------------------
\* Properties of the token binding
\* ------------------------------------------------------------------------
SingleQubitGates == {"H", "X", "Y", "Z", "RZ", "RY"}

\* C10: for any gate list and any n >= 1 the token at 0-based position i
\* is bound to qubit i mod n when it is a single-qubit gate and to control
\* i mod n, target (i mod n + 1) mod n when it is CNOT, in every builder
\* that takes gate tokens.
C10_OneBindingPolicy ==
  \A p \in 1..Len(binding.gates) :
    LET g == binding.gates[p]
        q == (p - 1) % binding.n
    IN /\ g \in SingleQubitGates => binding.bound[p] = <<Op(g, -1, q)>>
       /\ g = "CNOT" => binding.bound[p] = <<Op("CNOT", q, (q + 1) % binding.n)>>


\* ------------------------------------------------------------------------
\* C11: in every entry point that runs trials, each trial appends the
\* sender's bit to the key exactly when the two bases are equal and leaves
\* the key alone otherwise; the returned key is the sifted bits cut off after
\* the first key_length of them; no run has more than 2*key_length trials
\* and no returned key more than key_length bits.
\* ------------------------------------------------------------------------
C11_KeyIsSiftedSenderBits ==
  [][ /\ (bb.pc = "loop" /\ bb'.trials = bb.trials + 1) =>
           /\ bb'.shared_key =
                IF bb'.last.alice_basis = bb'.last.bob_basis
                THEN Append(bb.shared_key, bb'.last.alice_bit)
                ELSE bb.shared_key
           /\ bb'.trials <= 2 * bb.key_length
      /\ (bb.pc = "exit" /\ bb'.pc = "done" /\ bb.style # "fallback"
             /\ bb'.ret.status = "ok") =>
           /\ Len(bb'.ret.key) <= bb.key_length
           /\ bb'.ret.key =
                SubSeq(bb.shared_key, 1,
                       IF Len(bb.shared_key) < bb.key_length
                       THEN Len(bb.shared_key) ELSE bb.key_length)
    ]_vars

\* A finished run of a laboratory class that sifted more bits than asked for
C11_Witness ==
  /\ bb.pc = "done"
  /\ bb.style = "lab"
  /\ bb.trials = 2 * bb.key_length
  /\ Len(bb.shared_key) > bb.key_length
  /\ bb.ret.status = "ok"
  /\ bb.ret.key = SubSeq(bb.shared_key, 1, bb.key_length)

\* ------------------------------------------------------------------------
\* C12: a finished run whose key is shorter than key_length hands back a
\* result that carries a marker of being partial, and every bit of the key
\* was obtained by sifting.
\* ------------------------------------------------------------------------
PartialMarkers == {"partial", "is_partial", "complete", "status"}

C12_PartialIsMarked ==
  (bb.pc = "done" /\ Len(bb.ret.key) < bb.key_length) =>
    /\ bb.ret.status = "ok"
    /\ BBReturnKeys(bb.variant, bb.style) \cap PartialMarkers # {}
    /\ \E m \in 0..Len(bb.shared_key) : bb.ret.key = SubSeq(bb.shared_key, 1, m)


\* ------------------------------------------------------------------------
\* C13: in every finished Grover run the oracle flips the phase of exactly
\* one basis state, the key under which that state is counted decodes to
\* marked_item, and a run whose most frequent outcome is that state reports
\* found_item = marked_item; for n_qubits = 3 and marked_item = 5 the outcome
\* '101' has probability above 0.9.
\* ------------------------------------------------------------------------
\* The basis states whose amplitude the oracle changes in the uniform
\* superposition
OracleFlipped(variant, n, marked_item) ==
  LET before == Simulate(n, OnRange("H", n))
      after == Simulate(n, OnRange("H", n) \o GroverMark(variant, n, marked_item))
  IN {x \in DOMAIN before.amp : after.amp[x] # before.amp[x]}

C13_GroverFindsMarked ==
  (alg.proto = "grover" /\ alg.pc = "done") =>
    LET flipped == OracleFlipped(alg.variant, alg.n, alg.arg)
    IN /\ Cardinality(flipped) = 1
       /\ \A x \in flipped :
            /\ ParseInt2(GroverKey(alg.n, x)) = alg.arg
            /\ (alg.variant = "part_qiskit"
                  /\ MostLikely(alg.hist).key = GroverKey(alg.n, x)) =>
                 (alg.ret.status = "ok" /\ alg.ret.value = alg.arg)
       /\ (alg.n = 3 /\ alg.arg = 5) =>
            \E x \in Support(alg.state) :
              /\ GroverKey(3, x) = <<"1", "0", "1">>
              /\ 10 * ProbNum(alg.state, {x})[1] > 9 * Pow2(2 * alg.state.k)


\* ------------------------------------------------------------------------
\* C14 as stated: for every register of 1 to 6 qubits and every basis
\* state, the gates of the transform followed by the gates of the inverse
\* transform leave the register in the basis state it started in, and the
\* inverse is the transform's gates in reverse order with negated phase
\* angles, position by position.
\* ------------------------------------------------------------------------
Negated(op) == [op EXCEPT !.power = 0 - op.power]
Occurrences(ops, op) == Cardinality({p \in 1..Len(ops) : ops[p] = op})
PositionOf(ops, op) == CHOOSE p \in 1..Len(ops) : ops[p] = op
\* Two controlled phases, or two swaps of the transform (which act on
\* disjoint pairs of qubits): gates whose order does not matter
Interchangeable(a, b) ==
  a.kind = b.kind /\ a.kind \in {"CP", "SWAP"}

C14_InverseIsReversed ==
  (alg.proto = "qft" /\ alg.pc = "done") =>
    /\ alg.state = BasisState(alg.n, alg.arg)
    /\ LET forward == QftGates(alg.n)
       IN InverseQftGates(alg.n)
            = [p \in 1..Len(forward) |->
                 Negated(forward[Len(forward) + 1 - p])]

\* C14, amended: the round trip returns every basis state of 1 to 6
\* qubits, and the inverse holds exactly the transform's gates with negated
\* phase angles, any two of them in reversed order unless both are
\* controlled phases or both are swaps.
C14_QftRoundTrip ==
  (alg.proto = "qft" /\ alg.pc = "done") =>
    /\ alg.state = BasisState(alg.n, alg.arg)
    /\ LET forward == QftGates(alg.n)
           inverse == InverseQftGates(alg.n)
       IN /\ Len(inverse) = Len(forward)
          /\ \A p \in 1..Len(forward) :
               /\ Occurrences(forward, forward[p]) = 1
               /\ Occurrences(inverse, Negated(forward[p])) = 1
          /\ \A p, q \in 1..Len(forward) :
               (p < q /\ ~Interchangeable(forward[p], forward[q])) =>
                 PositionOf(inverse, Negated(forward[q]))
                   < PositionOf(inverse, Negated(forward[p]))

C14_Witness ==
  /\ alg.proto = "qft" /\ alg.pc = "done"
  /\ alg.n = 6 /\ alg.arg = 37
  /\ alg.state = BasisState(6, 37)


\* ------------------------------------------------------------------------
\* C15: a finished phase estimation reports measured integer / 2^n, the
\* integer weighing counting qubit i with 2^i, and for the built-in unitary
\* the reported phase is 1/2 with confidence 1.
\* ------------------------------------------------------------------------
\* The integer that gives the bit of counting qubit i the weight 2^i
RECURSIVE WeightLow(_, _)
WeightLow(key, i) ==
  IF i = 0 THEN 0
  ELSE (IF key[i] = "1" THEN Pow2(i - 1) ELSE 0) + WeightLow(key, i - 1)

C15_PhaseIsHalf ==
  (alg.proto = "qpe" /\ alg.pc = "done") =>
    /\ alg.ret.status = "ok"
    /\ Len(alg.ret.key) = alg.n
    /\ alg.ret.extra = Pow2(alg.n)
    /\ alg.ret.value = WeightLow(alg.ret.key, alg.n)
    /\ 2 * alg.ret.value = alg.ret.extra
    /\ alg.ret.prob[1] = alg.ret.prob[2]


\* ------------------------------------------------------------------------
\* C16: the most likely outcome a finished run reports is, among the
\* outcomes of its histogram that have the largest count, the
\* lexicographically smallest bitstring.
\* ------------------------------------------------------------------------
\* The rank of a reported bitstring among those of its length
LexRank(key) == ParseInt2(key)

\* The bitstring under which an entry of the histogram is reported
ReportedAs(proto, n, key) ==
  IF proto = "qpe" THEN [p \in 1..n |-> Digit(key[p])] ELSE key

C16_TieBreakSmallest ==
  (alg.pc = "done" /\ alg.proto \in {"walk", "qpe"} /\ alg.hist # <<>>) =>
    \A p \in 1..Len(alg.hist) :
      (\A r \in 1..Len(alg.hist) : alg.hist[r].count <= alg.hist[p].count) =>
        LexRank(alg.ret.key)
          <= LexRank(ReportedAs(alg.proto, alg.n, alg.hist[p].key))


\* ------------------------------------------------------------------------
\* C17: a finished create_bell_state holds only the outcomes '00' and '11'
\* in its histogram, and a one-shot entry point returns two equal bits.
\* ------------------------------------------------------------------------
C17_BellBitsEqual ==
  (alg.proto = "bell" /\ alg.pc = "done") =>
    /\ alg.variant \in {"lab_cirq", "lab_qiskit", "lab_qsharp"} =>
         \A p \in 1..Len(alg.hist) :
           alg.hist[p].key \in {<<"0", "0">>, <<"1", "1">>}
    /\ alg.variant \in {"part_cirq", "part_qiskit", "fallback"} =>
         alg.ret.key[1] = alg.ret.key[2]


\* ------------------------------------------------------------------------
\* C18: a finished QuantumInterface method whose backend raised, or that
\* had no backend to call, ends in an error, and no finished method hands
\* back a value that did not come from the backend.
\* ------------------------------------------------------------------------
C18_InterfaceFailsLoudly ==
  (alg.proto = "interface" /\ alg.pc = "done") =>
    /\ (alg.raised
          \/ ~Delegates(alg.iface, alg.variant, Backend(available))) =>
         alg.ret.status = "error"
    /\ alg.ret.status = "ok" => alg.ret.origin = "backend"


\* ------------------------------------------------------------------------
\* C19: a call of execute_circuit with shots <= 0, and a call of
\* create_quantum_circuit with num_qubits <= 0, ends in an error and leaves
\* the registry as it was.
\* ------------------------------------------------------------------------
C19_NonPositiveRejected ==
  [][ ((call'.op = "execute_circuit" /\ call'.shots <= 0)
         \/ (call'.op = "create_quantum_circuit" /\ call'.num_qubits <= 0)) =>
        (result'.status = "error" /\ circuits' = circuits)
    ]_vars


\* ------------------------------------------------------------------------
\* C20: for num_bits >= 1 the random generator returns a binary string of
\* exactly num_bits digits, digit by digit the measurement of one qubit
\* after H (first qubit first or last qubit first), and decimal and hex
\* both denote the integer read from the whole binary string; the last
\* lines of a generator, given a text of its digits, return that text with
\* the decimal and hex of the whole of it.
\* ------------------------------------------------------------------------
HexBits(hex) ==
  LET value(c) == CHOOSE v \in 0..15 : HexDigits[v + 1] = c
      bit(c, k) == Digit((value(c) \div Pow2(4 - k)) % 2)
  IN StripZeros([p \in 1..(4 * Len(hex)) |->
                   bit(hex[((p - 1) \div 4) + 1], ((p - 1) % 4) + 1)])

C20_RandomDenotesBinary ==
  /\ (alg.proto = "random" /\ alg.pc = "done" /\ alg.n >= 1) =>
       /\ alg.ret.status = "ok"
       /\ alg.ret.origin = "backend"
       /\ Len(alg.ret.key) = alg.n
       /\ alg.ret.key \in {Digits(alg.row), Reversed(Digits(alg.row))}
       /\ alg.ret.decimal = StripZeros(alg.ret.key)
       /\ HexBits(alg.ret.hex) = StripZeros(alg.ret.key)
  /\ (alg.proto = "conversion" /\ alg.pc = "done") =>
       /\ alg.ret.status = "ok"
       /\ IsBinaryText(alg.ret.key)
       /\ alg.ret.decimal = StripZeros(alg.ret.key)
       /\ HexBits(alg.ret.hex) = StripZeros(alg.ret.key)


\* ------------------------------------------------------------------------
\* C21: with one writer creating circuits, every reader call on an id that
\* existed when the call started, and every list_circuits, completes
\* without error and sees only complete entries.
\* ------------------------------------------------------------------------
CompleteEntry(e) ==
  /\ DOMAIN e = {"id", "name", "num_qubits", "gates", "ops"}
  /\ e.id \in DOMAIN circuits /\ e = circuits[e.id]

C21_ReadersSafe ==
  \A t \in Readers :
    /\ readers[t].pc = "done" => readers[t].status = "ok"
    /\ \A p \in 1..Len(readers[t].seen) : CompleteEntry(readers[t].seen[p])

\* ------------------------------------------------------------------------
\* C22: the amplitude vector after every prefix of a stored circuit's bound
\* gates has total squared magnitude 1, and the statevector that
\* execute_circuit returns has total squared magnitude within 1e-9 of 1
\* (the simulated one of the Cirq lab as the complex64 simulator stores it,
\* whenever the circuit's gates are evaluated in single precision; the
\* normalised random one of the Q#-style lab).
\* ------------------------------------------------------------------------
\* Squared magnitude 1 of a vector amp / 2^k: sum |amp[x]|^2 = 4^k
UnitMass(s) == ProbNum(s, DOMAIN s.amp) = RScale(Pow2(2 * s.k), ROne)

C22_UnitNorm ==
  /\ framework = "Cirq" =>
       \A c \in DOMAIN circuits :
         \A j \in 0..Len(circuits[c].ops) :
           UnitMass(Simulate(circuits[c].num_qubits,
                             SubSeq(circuits[c].ops, 1, j)))
  /\ (result.op = "execute_circuit" /\ result.status = "ok") =>
       IF framework = "Cirq"
       THEN /\ UnitMass(result.statevector)
            /\ result.stored.known => SingleUnitMass(result.stored.amp)
       ELSE /\ result.statevector.norm2 > 0
            /\ SumSquares(result.statevector.dir,
                          Len(result.statevector.dir))
                 = result.statevector.norm2

\* ------------------------------------------------------------------------
\* C23: a finished Grover search over N items has applied exactly
\* floor(pi/4 * sqrt(N)) rounds of oracle and diffusion, and reports as its
\* iteration count the number of rounds it applied.
\* ------------------------------------------------------------------------
\* floor(pi/4 * sqrt(size)), with pi^2 taken as 9.8696
FloorQuarterPiSqrt(size) ==
  CHOOSE r \in 0..64 :
    /\ 160000 * r * r <= 98696 * size
    /\ 160000 * (r + 1) * (r + 1) > 98696 * size

C23_RoundsAppliedAndReported ==
  /\ (alg.proto = "grover" /\ alg.variant = "part_qiskit"
        /\ alg.pc = "done") =>
       /\ alg.rounds = FloorQuarterPiSqrt(Pow2(alg.n))
       /\ alg.ret.status = "ok" /\ alg.ret.extra = alg.rounds
  /\ (alg.proto = "grover_attack" /\ alg.pc = "done") =>
       /\ alg.rounds = FloorQuarterPiSqrt(alg.arg)
       /\ alg.ret.status = "ok" /\ alg.ret.extra = alg.rounds

\* ------------------------------------------------------------------------
\* C24: the circuit a QFT builder returns for n >= 1 is, for k = n-1 down
\* to 0, an H on qubit k followed by the controlled phases of angle
\* pi/2^(k-j) from each lower qubit j onto qubit k, and then the
\* floor(n/2) SWAPs of qubit q with qubit n-1-q and nothing else: n H gates
\* and n(n-1)/2 controlled phases.
\* ------------------------------------------------------------------------
\* Position of the H on qubit k: after the blocks of the qubits above k,
\* the block of qubit m holding m + 1 gates
BlockStart(n, k) == 1 + ((n * (n + 1)) \div 2) - (((k + 1) * (k + 2)) \div 2)

C24_QftStructure ==
  (alg.proto = "qft_builder" /\ alg.pc = "done") =>
    LET n == alg.n
        c == alg.circuit
        rotations == n + ((n * (n - 1)) \div 2)
    IN /\ alg.ret.status = "ok"
       /\ Len(c) = rotations + (n \div 2)
       /\ \A k \in 0..(n - 1) :
            /\ c[BlockStart(n, k)] = OpP("H", -1, k, 0)
            /\ {c[BlockStart(n, k) + p] : p \in 1..k}
                 = {OpP("CP", j, k, PiOver2Pow(k - j)) : j \in 0..(k - 1)}
       /\ {c[rotations + p] : p \in 1..(n \div 2)}
            = {OpP("SWAP", q, n - 1 - q, 0) : q \in 0..((n \div 2) - 1)}

\* ------------------------------------------------------------------------
\* C25: for a token circuit over H, X, Y, Z, CNOT the bitstrings one shot of
\* the Q#-style execute_circuit can count are exactly the outcomes of
\* non-zero Born probability after the same bound gates act as unitaries
\* on |0...0>.
\* ------------------------------------------------------------------------
C25_ShotsMatchBornRule ==
  (/\ binding.builder = "create_quantum_circuit"
   /\ \A p \in 1..Len(binding.gates) :
        binding.gates[p] \in {"H", "X", "Y", "Z", "CNOT"}) =>
    QsShotOutcomes(binding.n, binding.gates)
      = RunOutcomes(binding.n, Flatten(binding.bound, 1))

\* ------------------------------------------------------------------------
\* C26: whatever the caller does to the list it passed, the gates that
\* get_circuit_info reports for a circuit and the gates that execute_circuit
\* runs for it stay those given at creation: no step changes either.
\* ------------------------------------------------------------------------
\* What execute_circuit can count for an entry
EntryOutcomes(fw, e) ==
  IF fw = "Cirq" THEN RunOutcomes(e.num_qubits, e.ops)
  ELSE QsShotOutcomes(e.num_qubits, e.gates)

C26_StoredGatesIndependent ==
  [][\A c \in DOMAIN circuits :
       /\ c \in DOMAIN circuits'
       /\ CircuitInfo(circuits'[c]).gates = CircuitInfo(circuits[c]).gates
       /\ EntryOutcomes(framework, circuits'[c])
            = EntryOutcomes(framework, circuits[c])
    ]_vars

\* ------------------------------------------------------------------------
\* C27: every finished bb84_key_distribution run returns a result and does
\* not raise; a run whose sifted key is empty returns key_length 0 and the
\* key value 0.
\* ------------------------------------------------------------------------
C27_BB84NeverRaises ==
  bb.pc = "done" =>
    /\ bb.ret.status = "ok"
    /\ bb.ret.key = <<>> => (bb.ret.key_length = 0 /\ bb.ret.key_int = 0)

\* C28: after N successful create_quantum_circuit calls the registry keys
\* are exactly 1..N, each entry's id is its key, the k-th successful call
\* added key k and returned id k, and get_system_status reports
\* total_circuits = N.
C28_SequentialIds ==
  /\ [](/\ DOMAIN circuits = 1..Cardinality(DOMAIN circuits)
        /\ \A c \in DOMAIN circuits : circuits[c].id = c
        /\ result.op = "get_system_status" =>
             result.total_circuits = Cardinality(DOMAIN circuits))
  /\ [][IF call'.op = "create_quantum_circuit" /\ result'.status = "ok"
        THEN /\ DOMAIN circuits' =
                  DOMAIN circuits \cup {Cardinality(DOMAIN circuits) + 1}
             /\ result'.id = Cardinality(DOMAIN circuits) + 1
        ELSE DOMAIN circuits' = DOMAIN circuits]_vars

\* the status is asked after two circuits were created
C28_Witness ==
  /\ result.op = "get_system_status"
  /\ result.total_circuits = 2
  /\ DOMAIN circuits = {1, 2}

\* C29: whatever the availability of the two frameworks, a finished
\* 'Cirq only' method of QuantumInterface returns the Cirq lab's result
\* whenever Cirq is available, and a finished 'Qiskit only' method the
\* Qiskit lab's result whenever Qiskit is available.
C29_OnlyMethodsUseTheirLab ==
  (alg.proto = "interface" /\ alg.pc = "done" /\ alg.iface = "frameworks") =>
    /\ (/\ alg.variant \in {"quantum_phase_estimation", "quantum_teleportation"}
        /\ available.cirq) => alg.ret.origin = "backend"
    /\ (/\ alg.variant \in {"vqe_simulation", "grovers_algorithm"}
        /\ available.qiskit) => alg.ret.origin = "backend"

\* C30: for every integer N >= 2 a call of shors_algorithm(N) returns a
\* non-decreasing list of primes whose product is N, and for N < 2 it
\* returns the empty list.
IsPrime(p) == p >= 2 /\ \A q \in 2..(p - 1) : p % q # 0

RECURSIVE Product(_)
Product(s) == IF s = <<>> THEN 1 ELSE Head(s) * Product(Tail(s))

C30_ShorFactorsN ==
  (alg.proto = "shor" /\ alg.pc = "done") =>
    /\ alg.ret.status = "ok"
    /\ IF BelowTwo(alg.arg, alg.shift)
       THEN alg.ret.key = <<>>
       ELSE /\ \A p \in 1..Len(alg.ret.key) : IsPrime(alg.ret.key[p])
            /\ \A p \in 1..(Len(alg.ret.key) - 1) :
                 alg.ret.key[p] <= alg.ret.key[p + 1]
            /\ alg.shift = 0
            /\ Product(alg.ret.key) = alg.arg

====
